---- MODULE Spec2Model ----
(***************************************************************************)
(* A model of the RNTuple binary serializer (RNTupleSerialize.cxx and the  *)
(* RNTupleSerializer class of RNTupleSerialize.hxx).                       *)
(*                                                                         *)
(* Conventions.                                                            *)
(*  - A buffer is a sequence of bytes (0..255); index i holds offset i-1.  *)
(*  - A 16/32/64 bit quantity is carried as the signed integer with the    *)
(*    same two's complement bit pattern.  The unsigned entry points of the *)
(*    source are reinterpret_casts of the signed ones, so both views share *)
(*    one bit pattern; unsigned comparisons are made by ULess.             *)
(*  - A Serialize* operator takes buffer = TRUE for a real buffer and      *)
(*    buffer = FALSE for nullptr.  It yields [err, n, w]: the exception    *)
(*    thrown (NoErr if none), the byte count returned, the bytes written.  *)
(*  - A Deserialize* operator takes the caller's output object and yields  *)
(*    [err, n, out]: out is the output object as the call leaves it, also  *)
(*    when the call throws.                                                *)
(***************************************************************************)
EXTENDS Integers, Sequences, FiniteSets, TLC

VARIABLES
    desc,      \* the descriptor handed to the top-level serializers
    ctx,       \* the caller's RContext
    hdrNull,   \* outcome of the last SerializeHeaderV1(nullptr, desc)
    hdrReal,   \* outcome of the last SerializeHeaderV1(buffer, desc)
    plist,     \* outcome of the last SerializePageListV1
    ftr,       \* outcome of the last SerializeFooterV1
    mapLog,    \* history of the Map*Id calls made on ctx: <<kind, memId, returned>>
    call,      \* codec call under examination: operation and arguments
    ret        \* what that call returned and left behind

vars == <<desc, ctx, hdrNull, hdrReal, plist, ftr, mapLog, call, ret>>

NoErr == "none"
None == [tag |-> "none"]

---------------------------------------------------------------------------
(* Machine integers *)

Pow2(k) == 2 ^ k
Int32Min == -2147483647 - 1

\* a < b for two 32-bit patterns read as unsigned
ULess(a, b) == IF (a < 0) = (b < 0) THEN a < b ELSE b < 0

\* pattern & mask, for a mask of the form 2^k - 1
AndLowMask(pat, mask) == pat % (mask + 1)

\* val >> (8 * k), arithmetic
RECURSIVE ShiftRightBytes(_, _)
ShiftRightBytes(val, k) == IF k = 0 THEN val ELSE ShiftRightBytes(val \div 256, k - 1)

\* the bytes in the opposite order, most significant first
BigEndian(val, n) == SubSeq([k \in 1..n |-> ShiftRightBytes(val, n - k) % 256], 1, n)

\* the n low bytes of val's two's complement pattern, least significant first
LittleEndian(val, n) == SubSeq([k \in 1..n |-> ShiftRightBytes(val, k - 1) % 256], 1, n)

\* the signed value of a little-endian two's complement byte sequence
RECURSIVE FromLittleEndian(_)
FromLittleEndian(bytes) ==
    IF Len(bytes) = 1
    THEN (IF bytes[1] >= 128 THEN bytes[1] - 256 ELSE bytes[1])
    ELSE bytes[1] + 256 * FromLittleEndian(Tail(bytes))

\* bytes [off, off + n) of buffer b (off counted from 0)
Slice(b, off, n) == SubSeq(b, off + 1, off + n)

---------------------------------------------------------------------------
(* Fixed-width integers *)

SerializeInt16(val, buffer) ==
    [err |-> NoErr, n |-> 2, w |-> IF buffer THEN LittleEndian(val, 2) ELSE <<>>]

DeserializeInt16(b) == [n |-> 2, val |-> FromLittleEndian(Slice(b, 0, 2))]

SerializeUInt16(val, buffer) == SerializeInt16(val, buffer)

\* the std::uint16_t the reinterpret_cast leaves in val
DeserializeUInt16(b) ==
    LET r == DeserializeInt16(b)
    IN  [n |-> r.n, val |-> r.val % 65536]

SerializeInt32(val, buffer) ==
    [err |-> NoErr, n |-> 4, w |-> IF buffer THEN LittleEndian(val, 4) ELSE <<>>]

DeserializeInt32(b) == [n |-> 4, val |-> FromLittleEndian(Slice(b, 0, 4))]

SerializeUInt32(val, buffer) == SerializeInt32(val, buffer)

DeserializeUInt32(b) == DeserializeInt32(b)

SerializeInt64(val, buffer) ==
    [err |-> NoErr, n |-> 8, w |-> IF buffer THEN LittleEndian(val, 8) ELSE <<>>]

DeserializeInt64(b) == [n |-> 8, val |-> FromLittleEndian(Slice(b, 0, 8))]

SerializeUInt64(val, buffer) == SerializeInt64(val, buffer)

DeserializeUInt64(b) == DeserializeInt64(b)

\* The same two functions on a 64-bit value given as its two 32-bit halves
\* [hi, lo], for the values that lie outside the integers the operators
\* above compute with: byte k is (val & (0xFF << 8k)) >> 8k, which lies in
\* lo for k < 4 and in hi for k >= 4.
SerializeInt64Wide(val, buffer) ==
    [err |-> NoErr, n |-> 8,
     w |-> IF buffer THEN LittleEndian(val.lo, 4) \o LittleEndian(val.hi, 4) ELSE <<>>]

DeserializeInt64Wide(b) ==
    [n |-> 8, val |-> [hi |-> FromLittleEndian(Slice(b, 4, 4)),
                       lo |-> FromLittleEndian(Slice(b, 0, 4))]]

SerializeUInt64Wide(val, buffer) == SerializeInt64Wide(val, buffer)

DeserializeUInt64Wide(b) == DeserializeInt64Wide(b)

---------------------------------------------------------------------------
(* Strings: a string is the sequence of its bytes *)

SerializeString(val, buffer) ==
    [err |-> NoErr,
     n   |-> 4 + Len(val),
     w   |-> IF buffer THEN SerializeUInt32(Len(val), TRUE).w \o val ELSE <<>>]

\* a reader that compares the stored length with the size of the whole buffer
DeserializeStringSizeNotReduced(b, size, val) ==
    IF ULess(size, 4)
    THEN [err |-> "buffer too short", n |-> 0, out |-> val]
    ELSE LET length == DeserializeUInt32(b).val
         IN  IF ULess(size, length)
             THEN [err |-> "buffer too short", n |-> 0, out |-> val]
             ELSE [err |-> NoErr, n |-> 4 + length, out |-> Slice(b, 4, length)]

DeserializeString(b, size, val) ==
    IF ULess(size, 4)
    THEN [err |-> "buffer too short", n |-> 0, out |-> val]
    ELSE LET length == DeserializeUInt32(b).val
         IN  IF ULess(size - 4, length)
             THEN [err |-> "buffer too short", n |-> 0, out |-> val]
             ELSE [err |-> NoErr, n |-> 4 + length, out |-> Slice(b, 4, length)]

---------------------------------------------------------------------------
(* CRC-32 as computed by R__crc32 (zlib): reflected polynomial 0xEDB88320.  *)
(* A register is a sequence of 32 bits, least significant first.            *)

Crc32Poly == <<0,0,0,0,0,1,0,0, 1,1,0,0,0,0,0,1, 0,0,0,1,1,1,0,1, 1,0,1,1,0,1,1,1>>

XorBits(a, b) == SubSeq([i \in 1..32 |-> (a[i] + b[i]) % 2], 1, 32)

ShiftRightOne(a) == SubSeq(a, 2, 32) \o <<0>>

ByteBits(byte) == SubSeq([i \in 1..32 |-> IF i <= 8 THEN (byte \div Pow2(i - 1)) % 2 ELSE 0], 1, 32)

NotBits(a) == SubSeq([i \in 1..32 |-> 1 - a[i]], 1, 32)

\* one step of the bitwise division by the reflected polynomial
Crc32Bit(reg) ==
    IF reg[1] = 1 THEN XorBits(ShiftRightOne(reg), Crc32Poly) ELSE ShiftRightOne(reg)

\* k steps; each step's register is computed before the next step starts
RECURSIVE Crc32Shift(_, _)
Crc32Shift(reg, k) ==
    IF k = 0 THEN reg
    ELSE CHOOSE out \in {Crc32Shift(next, k - 1) : next \in {Crc32Bit(reg)}} : TRUE

\* the register after the bytes data[lo..hi], taken in order; the left half
\* is computed before the right half starts
RECURSIVE Crc32Range(_, _, _, _)
Crc32Range(reg, data, lo, hi) ==
    IF lo > hi THEN reg
    ELSE IF lo = hi THEN Crc32Shift(XorBits(reg, ByteBits(data[lo])), 8)
    ELSE LET mid == (lo + hi) \div 2
         IN  CHOOSE out \in {Crc32Range(left, data, mid + 1, hi) :
                                left \in {Crc32Range(reg, data, lo, mid)}} : TRUE

Crc32Update(reg, data, i) == Crc32Range(reg, data, i, Len(data))

\* the 32-bit pattern of a register, as a signed integer
RECURSIVE BitsValue(_, _)
BitsValue(bits, i) ==
    IF i = 32 THEN (IF bits[32] = 1 THEN Int32Min ELSE 0)
    ELSE bits[i] * Pow2(i - 1) + BitsValue(bits, i + 1)

PatternBits(pat) ==
    SubSeq([i \in 1..32 |-> ShiftRightBytes(pat, (i - 1) \div 8) \div Pow2((i - 1) % 8) % 2], 1, 32)

\* R__crc32(crc, data, length); R__crc32(0, nullptr, 0) is 0
R__crc32(crc, data) == BitsValue(NotBits(Crc32Update(NotBits(PatternBits(crc)), data, 1)), 1)

SerializeCRC32(data, length, buffer) ==
    IF buffer
    THEN LET checksum == R__crc32(R__crc32(0, <<>>), Slice(data, 0, length))
         IN  [err |-> NoErr, n |-> 4, w |-> SerializeUInt32(checksum, TRUE).w]
    ELSE [err |-> NoErr, n |-> 4, w |-> <<>>]

\* a verification that never reports a mismatch
VerifyCRC32Ignored(data, length) == NoErr

\* the exception VerifyCRC32 throws, NoErr if none
VerifyCRC32(data, length) ==
    LET checksumReal  == R__crc32(R__crc32(0, <<>>), Slice(data, 0, length))
        checksumFound == DeserializeUInt32(Slice(data, length, 4)).val
    IN  IF checksumFound # checksumReal THEN "CRC32 checksum mismatch" ELSE NoErr

---------------------------------------------------------------------------
(* Results of Serialize* calls made one after the other *)

\* r1 and then r2, which starts where r1 stopped; a throw in r1 ends the run
Then(r1, r2) ==
    IF r1.err # NoErr THEN r1
    ELSE [err |-> r2.err, n |-> r1.n + r2.n, w |-> r1.w \o r2.w]

\* mem with bytes w stored at offset off; bytes never stored read "uninit"
Poke(mem, off, w) ==
    LET len == IF off + Len(w) > Len(mem) THEN off + Len(w) ELSE Len(mem)
    IN  SubSeq([i \in 1..len |->
                    IF i > off /\ i <= off + Len(w) THEN w[i - off]
                    ELSE IF i <= Len(mem) THEN mem[i] ELSE "uninit"], 1, len)

---------------------------------------------------------------------------
(* Enum codec *)

\* a table in which the tags of kByte and kBit have changed places
ColumnTypeTagSwapped(type) ==
    CASE type = "kIndex"  -> 2
      [] type = "kSwitch" -> 3
      [] type = "kByte"   -> 6
      [] type = "kBit"    -> 13
      [] type = "kReal64" -> 7
      [] type = "kReal32" -> 8
      [] type = "kReal16" -> 9
      [] type = "kInt64"  -> 10
      [] type = "kInt32"  -> 11
      [] type = "kInt16"  -> 12
      [] OTHER            -> -1

ColumnTypeTag(type) ==
    CASE type = "kIndex"  -> 2
      [] type = "kSwitch" -> 3
      [] type = "kByte"   -> 13
      [] type = "kBit"    -> 6
      [] type = "kReal64" -> 7
      [] type = "kReal32" -> 8
      [] type = "kReal16" -> 9
      [] type = "kInt64"  -> 10
      [] type = "kInt32"  -> 11
      [] type = "kInt16"  -> 12
      [] OTHER            -> -1

SerializeColumnType(type, buffer) ==
    IF ColumnTypeTag(type) < 0
    THEN [err |-> "unexpected column type", n |-> 0, w |-> <<>>]
    ELSE SerializeUInt16(ColumnTypeTag(type), buffer)

\* the switch of DeserializeColumnType; "" when the default case is taken
ColumnTypeOfTag(onDiskType) ==
    CASE onDiskType = 2  -> "kIndex"
      [] onDiskType = 3  -> "kSwitch"
      [] onDiskType = 6  -> "kBit"
      [] onDiskType = 7  -> "kReal64"
      [] onDiskType = 8  -> "kReal32"
      [] onDiskType = 9  -> "kReal16"
      [] onDiskType = 10 -> "kInt64"
      [] onDiskType = 11 -> "kInt32"
      [] onDiskType = 12 -> "kInt16"
      [] onDiskType = 13 -> "kByte"
      [] OTHER           -> ""

\* DeserializeColumnType(buffer, type): [err, n, out]
DeserializeColumnType(b, type) ==
    LET result == DeserializeUInt16(b)
    IN  IF ColumnTypeOfTag(result.val) = ""
        THEN [err |-> "unexpected on-disk column type", n |-> 0, out |-> type]
        ELSE [err |-> NoErr, n |-> result.n, out |-> ColumnTypeOfTag(result.val)]

FieldStructureTag(structure) ==
    CASE structure = "kLeaf"       -> 0
      [] structure = "kCollection" -> 1
      [] structure = "kRecord"     -> 2
      [] structure = "kVariant"    -> 3
      [] structure = "kReference"  -> 4
      [] OTHER                     -> -1

SerializeFieldStructure(structure, buffer) ==
    IF FieldStructureTag(structure) < 0
    THEN [err |-> "unexpected field structure type", n |-> 0, w |-> <<>>]
    ELSE SerializeUInt16(FieldStructureTag(structure), buffer)

---------------------------------------------------------------------------
(* Envelope codec *)

kEnvelopeCurrentVersion == 1
kEnvelopeMinVersion == 1

SerializeEnvelopePreamble(buffer) ==
    Then(SerializeUInt16(kEnvelopeCurrentVersion, buffer),
         SerializeUInt16(kEnvelopeMinVersion, buffer))

SerializeEnvelopePostscript(envelope, size, buffer) == SerializeCRC32(envelope, size, buffer)

\* [err, crc32]: the value returned, unless it throws
ExtractEnvelopeCRC32(data, bufSize) ==
    IF ULess(bufSize, 8)
    THEN [err |-> "invalid envelope, too short", crc32 |-> 0]
    ELSE [err |-> NoErr, crc32 |-> DeserializeUInt32(Slice(data, bufSize - 4, 4)).val]


\* a bound that also refuses the current version
VersionTooNewInclusive(protocolVersionMinRequired) ==
    protocolVersionMinRequired >= kEnvelopeCurrentVersion

\* protocolVersionMinRequired > kEnvelopeCurrentVersion
VersionTooNew(protocolVersionMinRequired) ==
    protocolVersionMinRequired > kEnvelopeCurrentVersion

\* DeserializeEnvelope(buffer, bufSize): [err, n, read]; n is the value
\* returned, read the number of bytes of the buffer the call has looked at
DeserializeEnvelope(b, bufSize) ==
    IF ULess(bufSize, 8)
    THEN [err |-> "invalid envelope, too short", n |-> 0, read |-> 0]
    ELSE LET crc == VerifyCRC32(b, bufSize - 4)
         IN  IF crc # NoErr THEN [err |-> crc, n |-> 0, read |-> bufSize]
             ELSE LET protocolVersionAtWrite     == DeserializeUInt16(b).val
                      protocolVersionMinRequired == DeserializeUInt16(Slice(b, 2, 2)).val
                  IN  IF protocolVersionAtWrite < 1
                      THEN [err |-> "The RNTuple format is too old (version 0)",
                            n |-> 0, read |-> bufSize]
                      ELSE IF VersionTooNew(protocolVersionMinRequired)
                      THEN [err |-> "The RNTuple format is too new", n |-> 0, read |-> bufSize]
                      ELSE [err |-> NoErr, n |-> 4, read |-> bufSize]

---------------------------------------------------------------------------
(* Frame codec *)

\* a record frame opened with the list marker
SerializeRecordFramePreambleNegative(buffer) == SerializeInt32(-1, buffer)

SerializeRecordFramePreamble(buffer) == SerializeInt32(1, buffer)

\* a limit that lets 2^28 through
ListFrameLimitInclusive == Pow2(28) + 1

ListFrameLimit == Pow2(28)

SerializeListFramePreamble(nitems, buffer) ==
    IF ~ULess(nitems, ListFrameLimit)
    THEN [err |-> "list frame too large", n |-> 0, w |-> <<>>]
    ELSE Then(SerializeInt32(-1, buffer), SerializeUInt32(nitems, buffer))

\* What an access through a pointer formed by arithmetic on nullptr can do:
\* the access faults, or it lands in memory that is there and changes nothing
\* the caller observes.
UBOutcomes == {"fault", "benign"}

\* SerializeFramePostscript(frame, size).  mem is the memory the caller writes to.
\* buffer says whether the caller was given a real buffer; frame is the offset of
\* the frame's start from the caller's base pointer, so that the pointer frame is
\* nullptr exactly when buffer is FALSE and the offset is 0.  ub is the outcome
\* of the access when the pointer was formed from nullptr.  Yields [err, n, mem].
SerializeFramePostscript(mem, buffer, frame, size, ub) ==
    IF size < 0 THEN [err |-> "Frame too large", n |-> 0, mem |-> mem]
    ELSE IF size < 4 THEN [err |-> "Frame too short", n |-> 0, mem |-> mem]
    ELSE IF ~buffer /\ frame = 0 THEN [err |-> NoErr, n |-> 0, mem |-> mem]
    ELSE IF ~buffer
         THEN [err |-> IF ub = "fault" THEN "SIGSEGV" ELSE NoErr, n |-> 0, mem |-> mem]
    ELSE LET marker == DeserializeInt32(Slice(mem, frame, 4)).val
         IN  IF marker < 0 /\ size < 8
             THEN [err |-> "Frame too short", n |-> 0, mem |-> mem]
             ELSE [err |-> NoErr, n |-> 0,
                   mem |-> Poke(mem, frame, SerializeInt32(marker * size, TRUE).w)]

\* the record written by a function whose frame starts at its own base pointer:
\* body as emitted, closed by SerializeFramePostscript(frame, size); returns size
CloseOwnFrame(body, buffer) ==
    IF body.err # NoErr THEN body
    ELSE LET post == SerializeFramePostscript(body.w, buffer, 0, body.n, "fault")
         IN  [err |-> post.err, n |-> body.n, w |-> post.mem]

nitemsMask == (2 * Pow2(28)) - 1

\* [err, n, frameSize, nitems]; frameSize and nitems are the output parameters as
\* the call leaves them (None: not assigned)
DeserializeFrame(b, bufSize) ==
    IF ULess(bufSize, 4)
    THEN [err |-> "frame too short", n |-> 0, frameSize |-> None, nitems |-> None]
    ELSE LET ssize == DeserializeInt32(b).val
         IN  IF ssize >= 0
             THEN IF ULess(ssize, 4)
                  THEN [err |-> "corrupt frame size", n |-> 0, frameSize |-> ssize, nitems |-> 1]
                  ELSE IF ULess(bufSize, ssize)
                  THEN [err |-> "frame too short", n |-> 0, frameSize |-> ssize, nitems |-> 1]
                  ELSE [err |-> NoErr, n |-> 4, frameSize |-> ssize, nitems |-> 1]
             ELSE IF ULess(bufSize, 8)
                  THEN [err |-> "frame too short", n |-> 0, frameSize |-> ssize, nitems |-> None]
                  ELSE LET nitems    == AndLowMask(DeserializeUInt32(Slice(b, 4, 4)).val, nitemsMask)
                           frameSize == -ssize
                       IN  IF ssize = Int32Min  \* -INT32_MIN overflows: undefined
                           THEN [err |-> "undefined", n |-> 0,
                                 frameSize |-> None, nitems |-> nitems]
                           ELSE IF ULess(frameSize, 8)
                           THEN [err |-> "corrupt frame size", n |-> 0,
                                 frameSize |-> frameSize, nitems |-> nitems]
                           ELSE IF ULess(bufSize, frameSize)
                           THEN [err |-> "frame too short", n |-> 0,
                                 frameSize |-> frameSize, nitems |-> nitems]
                           ELSE [err |-> NoErr, n |-> 8,
                                 frameSize |-> frameSize, nitems |-> nitems]

---------------------------------------------------------------------------
(* Feature flags *)

Abs(f) == IF f < 0 THEN -f ELSE f

\* the loop of SerializeFeatureFlags from index i on: [err, w]
RECURSIVE SerializeFeatureFlagsLoop(_, _)
SerializeFeatureFlagsLoop(flags, i) ==
    IF i > Len(flags) THEN [err |-> NoErr, w |-> <<>>]
    ELSE IF flags[i] < 0 THEN [err |-> "feature flag out of bounds", w |-> <<>>]
    ELSE IF i = Len(flags) THEN [err |-> NoErr, w |-> SerializeInt64(flags[i], TRUE).w]
    ELSE LET rest == SerializeFeatureFlagsLoop(flags, i + 1)
         IN  [err |-> rest.err, w |-> SerializeInt64(-flags[i], TRUE).w \o rest.w]

SerializeFeatureFlags(flags, buffer) ==
    IF flags = <<>> THEN SerializeInt64(0, buffer)
    ELSE IF buffer
         THEN LET loop == SerializeFeatureFlagsLoop(flags, 1)
              IN  [err |-> loop.err,
                   n   |-> IF loop.err = NoErr THEN Len(flags) * 8 ELSE 0,
                   w   |-> loop.w]
         ELSE [err |-> NoErr, n |-> Len(flags) * 8, w |-> <<>>]

\* the do-while loop of DeserializeFeatureFlags with bytes at offset off, size
\* bytes left and flags read so far
RECURSIVE DeserializeFeatureFlagsLoop(_, _, _, _)
DeserializeFeatureFlagsLoop(b, off, size, flags) ==
    IF ULess(size, 8) THEN [err |-> "buffer too short", n |-> 0, out |-> flags]
    ELSE LET f == DeserializeInt64(Slice(b, off, 8)).val
         IN  IF f < 0
             THEN DeserializeFeatureFlagsLoop(b, off + 8, size - 8, Append(flags, Abs(f)))
             ELSE [err |-> NoErr, n |-> (Len(flags) + 1) * 8, out |-> Append(flags, Abs(f))]

\* flags.clear() comes first
DeserializeFeatureFlags(b, size, flags) == DeserializeFeatureFlagsLoop(b, 0, size, <<>>)

---------------------------------------------------------------------------
(* Locator, envelope link, cluster summary, cluster group *)

\* a limit that lets a URL of 2^24 bytes through
LocatorUrlLimitInclusive == Pow2(24) + 1

LocatorUrlLimit == Pow2(24)
LocatorUrlTag == 2

SerializeLocator(locator, buffer) ==
    IF locator.fUrl # <<>>
    THEN IF Len(locator.fUrl) >= LocatorUrlLimit
         THEN [err |-> "locator too large", n |-> 0, w |-> <<>>]
         ELSE LET head == -(Len(locator.fUrl) + LocatorUrlTag * Pow2(24))
              IN  [err |-> NoErr,
                   n   |-> 4 + Len(locator.fUrl),
                   w   |-> IF buffer THEN SerializeInt32(head, TRUE).w \o locator.fUrl
                                     ELSE <<>>]
    ELSE IF locator.fBytesOnStorage < 0
         THEN [err |-> "locator too large", n |-> 0, w |-> <<>>]
         ELSE Then(SerializeUInt32(locator.fBytesOnStorage, buffer),
                   SerializeUInt64(locator.fPosition, buffer))

DeserializeLocator(b, bufSize, locator) ==
    IF ULess(bufSize, 4) THEN [err |-> "too short locator", n |-> 0, out |-> locator]
    ELSE LET head == DeserializeInt32(b).val
             left == bufSize - 4
         IN  IF head < 0
             THEN IF head = Int32Min  \* -INT32_MIN overflows: undefined
                  THEN [err |-> "undefined", n |-> 0, out |-> locator]
                  ELSE LET type        == (-head) \div Pow2(24)
                           locatorSize == (-head) % Pow2(24)
                       IN  IF type # LocatorUrlTag
                           THEN [err |-> "unsupported locator type", n |-> 0, out |-> locator]
                           ELSE IF ULess(left, locatorSize)
                           THEN [err |-> "too short locator", n |-> 0, out |-> locator]
                           ELSE [err |-> NoErr, n |-> 4 + locatorSize,
                                 out |-> [fBytesOnStorage |-> 0, fPosition |-> 0,
                                          fUrl |-> Slice(b, 4, locatorSize)]]
             ELSE IF ULess(left, 8)
                  THEN [err |-> "too short locator", n |-> 0, out |-> locator]
                  ELSE [err |-> NoErr, n |-> 12,
                        out |-> [fBytesOnStorage |-> head,
                                 fPosition |-> DeserializeUInt64(Slice(b, 4, 8)).val,
                                 fUrl |-> <<>>]]

SerializeEnvelopeLink(envelopeLink, buffer) ==
    Then(SerializeUInt32(envelopeLink.fUnzippedSize, buffer),
         SerializeLocator(envelopeLink.fLocator, buffer))

DeserializeEnvelopeLink(b, bufSize, envelopeLink) ==
    IF ULess(bufSize, 4) THEN [err |-> "too short locator", n |-> 0, out |-> envelopeLink]
    ELSE LET unzipped == DeserializeUInt32(b).val
             loc      == DeserializeLocator(Slice(b, 4, Len(b) - 4), bufSize - 4,
                                            envelopeLink.fLocator)
         IN  [err |-> loc.err,
              n   |-> IF loc.err = NoErr THEN 4 + loc.n ELSE 0,
              out |-> [fUnzippedSize |-> unzipped, fLocator |-> loc.out]]

SerializeClusterSummary(clusterSummary, buffer) ==
    CloseOwnFrame(
        Then(Then(SerializeRecordFramePreamble(buffer),
                  SerializeUInt64(clusterSummary.fFirstEntry, buffer)),
             IF clusterSummary.fColumnGroupID >= 0
             THEN Then(SerializeInt64(-clusterSummary.fNEntries, buffer),
                       SerializeUInt32(clusterSummary.fColumnGroupID, buffer))
             ELSE SerializeInt64(clusterSummary.fNEntries, buffer)),
        buffer)

DeserializeClusterSummary(b, bufSize, clusterSummary) ==
    LET frame == DeserializeFrame(b, bufSize)
    IN  IF frame.err # NoErr THEN [err |-> frame.err, n |-> 0, out |-> clusterSummary]
        ELSE IF ULess(frame.frameSize - frame.n, 16)
        THEN [err |-> "too short cluster summary", n |-> 0, out |-> clusterSummary]
        ELSE LET first    == DeserializeUInt64(Slice(b, frame.n, 8)).val
                 nEntries == DeserializeInt64(Slice(b, frame.n + 8, 8)).val
                 left     == frame.frameSize - frame.n - 16
             IN  IF nEntries < 0
                 THEN IF ULess(left, 4)
                      THEN [err |-> "too short cluster summary", n |-> 0,
                            out |-> [clusterSummary EXCEPT !.fFirstEntry = first]]
                      ELSE [err |-> NoErr, n |-> frame.frameSize,
                            out |-> [fFirstEntry |-> first, fNEntries |-> -nEntries,
                                     fColumnGroupID |->
                                         DeserializeUInt32(Slice(b, frame.n + 16, 4)).val]]
                 ELSE [err |-> NoErr, n |-> frame.frameSize,
                       out |-> [fFirstEntry |-> first, fNEntries |-> nEntries,
                                fColumnGroupID |-> -1]]

SerializeClusterGroup(clusterGroup, buffer) ==
    CloseOwnFrame(
        Then(Then(SerializeRecordFramePreamble(buffer),
                  SerializeUInt32(clusterGroup.fNClusters, buffer)),
             SerializeEnvelopeLink(clusterGroup.fPageListEnvelopeLink, buffer)),
        buffer)

DeserializeClusterGroup(b, bufSize, clusterGroup) ==
    LET frame == DeserializeFrame(b, bufSize)
    IN  IF frame.err # NoErr THEN [err |-> frame.err, n |-> 0, out |-> clusterGroup]
        ELSE IF ULess(frame.frameSize - frame.n, 4)
        THEN [err |-> "too short cluster group", n |-> 0, out |-> clusterGroup]
        ELSE LET nClusters == DeserializeUInt32(Slice(b, frame.n, 4)).val
                 link      == DeserializeEnvelopeLink(
                                  Slice(b, frame.n + 4, Len(b) - frame.n - 4),
                                  frame.frameSize - frame.n - 4,
                                  clusterGroup.fPageListEnvelopeLink)
             IN  [err |-> link.err,
                  n   |-> IF link.err = NoErr THEN frame.frameSize ELSE 0,
                  out |-> [fNClusters |-> nClusters, fPageListEnvelopeLink |-> link.out]]

---------------------------------------------------------------------------
(* RContext.  A std::map is a function on the set of its keys, a             *)
(* std::vector a sequence (physical ID p at index p + 1).                   *)

NewContext ==
    [fHeaderSize |-> 0, fHeaderCrc32 |-> 0, fClusterGroups |-> <<>>,
     fMem2PhysFieldIDs |-> <<>>, fMem2PhysColumnIDs |-> <<>>, fMem2PhysClusterIDs |-> <<>>,
     fPhys2MemFieldIDs |-> <<>>, fPhys2MemColumnIDs |-> <<>>, fPhys2MemClusterIDs |-> <<>>]

\* map[key] = value
MapAssign(map, key, value) == (key :> value) @@ map

SetHeaderSize(context, size) == [context EXCEPT !.fHeaderSize = size]

SetHeaderCRC32(context, crc32) == [context EXCEPT !.fHeaderCrc32 = crc32]

GetHeaderCRC32(context) == context.fHeaderCrc32

AddClusterGroup(context, nClusters, pageListEnvelope) ==
    [context EXCEPT !.fClusterGroups =
        Append(@, [fNClusters |-> nClusters, fPageListEnvelopeLink |-> pageListEnvelope])]

GetClusterGroups(context) == context.fClusterGroups

\* Map*Id yield [ctx, physId]: the context afterwards and the value returned
MapFieldId(context, memId) ==
    LET physId == Len(context.fPhys2MemFieldIDs)
    IN  [ctx |-> [context EXCEPT
                     !.fMem2PhysFieldIDs = MapAssign(@, memId, physId),
                     !.fPhys2MemFieldIDs = Append(@, memId)],
         physId |-> physId]

MapColumnId(context, memId) ==
    LET physId == Len(context.fPhys2MemColumnIDs)
    IN  [ctx |-> [context EXCEPT
                     !.fMem2PhysColumnIDs = MapAssign(@, memId, physId),
                     !.fPhys2MemColumnIDs = Append(@, memId)],
         physId |-> physId]

MapClusterId(context, memId) ==
    LET physId == Len(context.fPhys2MemClusterIDs)
    IN  [ctx |-> [context EXCEPT
                     !.fMem2PhysClusterIDs = MapAssign(@, memId, physId),
                     !.fPhys2MemClusterIDs = Append(@, memId)],
         physId |-> physId]

\* std::map::at: [err, val]
MapAt(map, key) ==
    IF key \in DOMAIN map THEN [err |-> NoErr, val |-> map[key]]
    ELSE [err |-> "std::out_of_range", val |-> None]

\* std::vector::operator[]: an index past the end is undefined
VectorAt(vec, index) ==
    IF index >= 0 /\ index < Len(vec) THEN [err |-> NoErr, val |-> vec[index + 1]]
    ELSE [err |-> "undefined", val |-> None]

GetPhysFieldId(context, memId) == MapAt(context.fMem2PhysFieldIDs, memId)
GetPhysColumnId(context, memId) == MapAt(context.fMem2PhysColumnIDs, memId)
GetPhysClusterId(context, memId) == MapAt(context.fMem2PhysClusterIDs, memId)
GetMemFieldId(context, physId) == VectorAt(context.fPhys2MemFieldIDs, physId)
GetMemColumnId(context, physId) == VectorAt(context.fPhys2MemColumnIDs, physId)
GetMemClusterId(context, physId) == VectorAt(context.fPhys2MemClusterIDs, physId)

---------------------------------------------------------------------------
(* The descriptor, as the serializer reads it.  A descriptor d is            *)
(*   [name, description, fieldZero,                                          *)
(*    fields   : field ID -> [fieldVersion, typeVersion, structure,          *)
(*                            nRepetitions, fieldName, typeName,             *)
(*                            fieldDescription, fLinkIds],                   *)
(*    columns  : sequence of [fColumnId, fFieldId, type, isSorted],          *)
(*    clusters : cluster ID -> [fFirstEntryIndex, fNEntries, fColumnIds,     *)
(*                              fPageRanges : column ID -> page infos]]      *)

GetFieldZeroId(d) == d.fieldZero
GetNFields(d) == Cardinality(DOMAIN d.fields)
GetNColumns(d) == Len(d.columns)
GetNClusters(d) == Cardinality(DOMAIN d.clusters)

\* the fields linked by parentId, in link order
GetFieldIterable(d, parentId) == d.fields[parentId].fLinkIds

\* the columns of fieldId, in index order
GetColumnIterable(d, fieldId) ==
    SelectSeq(d.columns, LAMBDA c : c.fFieldId = fieldId)

GetClusterDescriptor(d, clusterId) == MapAt(d.clusters, clusterId)

GetPageRange(clusterDesc, columnId) == MapAt(clusterDesc.fPageRanges, columnId)

\* RColumnElementBase::GetBitsOnStorage
GetBitsOnStorage(type) ==
    CASE type = "kIndex"  -> 32
      [] type = "kSwitch" -> 64
      [] type = "kByte"   -> 8
      [] type = "kBit"    -> 1
      [] type = "kReal64" -> 64
      [] type = "kReal32" -> 32
      [] type = "kReal16" -> 16
      [] type = "kInt64"  -> 64
      [] type = "kInt32"  -> 32
      [] type = "kInt16"  -> 16
      [] OTHER            -> 0

---------------------------------------------------------------------------
(* The cursor of a top-level serializer.  pos is pos - base, mem the memory  *)
(* behind base (written only when buffer is real), frames the offsets of    *)
(* the frames begun and not yet closed (innermost first), ctx the context   *)
(* being built or used, size the envelope size once it is known.  ranges is *)
(* a record of what the page list wrote: per cluster, the in-memory IDs     *)
(* whose page ranges were serialized, in order.                             *)

Throw(err) == [err |-> err, n |-> 0, w |-> <<>>]

\* base, pos and where as the top-level serializers set them up
NewCursor(context) ==
    [err |-> NoErr, pos |-> 0, mem |-> <<>>, frames |-> <<>>, ctx |-> context,
     size |-> 0, ranges |-> <<>>]

\* pos += F(..., *where)
Emit(cur, r, buffer) ==
    IF cur.err # NoErr THEN cur
    ELSE [cur EXCEPT !.err = r.err,
                     !.pos = IF r.err = NoErr THEN cur.pos + r.n ELSE cur.pos,
                     !.mem = IF buffer THEN Poke(cur.mem, cur.pos, r.w) ELSE cur.mem]

\* auto frame = pos
OpenFrame(cur) ==
    IF cur.err # NoErr THEN cur ELSE [cur EXCEPT !.frames = <<cur.pos>> \o @]

\* pos += SerializeFramePostscript(frame, pos - frame)
Close(cur, buffer, ub) ==
    IF cur.err # NoErr THEN cur
    ELSE LET frame == Head(cur.frames)
             post  == SerializeFramePostscript(cur.mem, buffer, frame, cur.pos - frame, ub)
         IN  [cur EXCEPT !.err = post.err, !.pos = cur.pos + post.n, !.mem = post.mem,
                         !.frames = Tail(@)]

\* std::uint32_t size = pos - base; pos += SerializeEnvelopePostscript(base, size, *where)
EnvelopeFinish(cur, buffer) ==
    IF cur.err # NoErr THEN [cur EXCEPT !.size = cur.pos]
    ELSE [Emit(cur, SerializeEnvelopePostscript(cur.mem, cur.pos, buffer), buffer)
              EXCEPT !.size = cur.pos]

---------------------------------------------------------------------------
(* Header: fields and columns *)

kFlagRepetitiveField == 1
kFlagSortAscColumn == 1
kFlagNonNegativeColumn == 4

\* a traversal that puts a child in front of the queue (depth first)
QueuePushFront(idQueue, id) == <<id>> \o idQueue

\* idQueue.push_back(id)
QueuePushBack(idQueue, id) == Append(idQueue, id)

\* one field record, preamble to description
FieldRecord(f, physParentId, buffer) ==
    Then(Then(Then(Then(Then(Then(Then(Then(Then(
        SerializeRecordFramePreamble(buffer),
        SerializeUInt32(f.fieldVersion, buffer)),
        SerializeUInt32(f.typeVersion, buffer)),
        SerializeUInt32(physParentId, buffer)),
        SerializeFieldStructure(f.structure, buffer)),
        IF f.nRepetitions > 0
        THEN Then(SerializeUInt16(kFlagRepetitiveField, buffer),
                  SerializeUInt64(f.nRepetitions, buffer))
        ELSE SerializeUInt16(0, buffer)),
        SerializeString(f.fieldName, buffer)),
        SerializeString(f.typeName, buffer)),
        SerializeString(<<>>, buffer)),
        SerializeString(f.fieldDescription, buffer))

\* The for loop over the fields of one parent, from the i-th on.
\* st = [err, size, mem, ctx, idQueue]; at is the offset of the pointer
\* `buffer` that SerializeFieldsV1 was given: every record is stored there.
RECURSIVE SerializeFieldsV1Inner(_, _, _, _, _, _, _)
SerializeFieldsV1Inner(d, kids, i, physParentId, buffer, at, st) ==
    IF i > Len(kids) \/ st.err # NoErr THEN st
    ELSE LET rec  == FieldRecord(d.fields[kids[i]], physParentId, buffer)
             mem1 == IF buffer THEN Poke(st.mem, at, rec.w) ELSE st.mem
         IN  IF rec.err # NoErr THEN [st EXCEPT !.err = rec.err, !.mem = mem1]
             ELSE LET size == st.size + rec.n
                      post == SerializeFramePostscript(mem1, buffer,
                                                       IF buffer THEN at ELSE 0, size, "fault")
                  IN  SerializeFieldsV1Inner(d, kids, i + 1, physParentId, buffer, at,
                          [err     |-> post.err,
                           size    |-> size,
                           mem     |-> post.mem,
                           ctx     |-> st.ctx,
                           idQueue |-> IF post.err = NoErr
                                       THEN QueuePushBack(st.idQueue, kids[i])
                                       ELSE st.idQueue])

RECURSIVE SerializeFieldsV1Outer(_, _, _, _)
SerializeFieldsV1Outer(d, buffer, at, st) ==
    IF st.idQueue = <<>> \/ st.err # NoErr THEN st
    ELSE LET parentId == Head(st.idQueue)
             mapped   == MapFieldId(st.ctx, parentId)
         IN  SerializeFieldsV1Outer(d, buffer, at,
                 SerializeFieldsV1Inner(d, GetFieldIterable(d, parentId), 1,
                     mapped.physId, buffer, at,
                     [st EXCEPT !.idQueue = Tail(st.idQueue), !.ctx = mapped.ctx]))

\* [err, size, mem, ctx, idQueue]: size is the value returned
SerializeFieldsV1(d, context, buffer, mem, at) ==
    SerializeFieldsV1Outer(d, buffer, at,
        [err |-> NoErr, size |-> 0, mem |-> mem, ctx |-> context,
         idQueue |-> <<GetFieldZeroId(d)>>])

ColumnFlags(c) ==
    (IF c.isSorted THEN kFlagSortAscColumn ELSE 0)
    + (IF c.type = "kIndex" THEN kFlagNonNegativeColumn ELSE 0)

\* one column record, preamble to flags
ColumnRecord(c, context, buffer) ==
    LET physFieldId == GetPhysColumnId(context, c.fFieldId)
    IN  Then(Then(Then(Then(
            SerializeRecordFramePreamble(buffer),
            SerializeColumnType(c.type, buffer)),
            SerializeUInt16(GetBitsOnStorage(c.type), buffer)),
            IF physFieldId.err # NoErr THEN Throw(physFieldId.err)
            ELSE SerializeUInt32(physFieldId.val, buffer)),
            SerializeUInt32(ColumnFlags(c), buffer))

RECURSIVE SerializeColumnsV1Inner(_, _, _, _, _, _)
SerializeColumnsV1Inner(d, cols, i, buffer, at, st) ==
    IF i > Len(cols) \/ st.err # NoErr THEN st
    ELSE LET rec  == ColumnRecord(cols[i], st.ctx, buffer)
             mem1 == IF buffer THEN Poke(st.mem, at, rec.w) ELSE st.mem
         IN  IF rec.err # NoErr THEN [st EXCEPT !.err = rec.err, !.mem = mem1]
             ELSE LET size == st.size + rec.n
                      post == SerializeFramePostscript(mem1, buffer,
                                                       IF buffer THEN at ELSE 0, size, "fault")
                  IN  SerializeColumnsV1Inner(d, cols, i + 1, buffer, at,
                          [err     |-> post.err,
                           size    |-> size,
                           mem     |-> post.mem,
                           ctx     |-> IF post.err = NoErr
                                       THEN MapColumnId(st.ctx, cols[i].fColumnId).ctx
                                       ELSE st.ctx,
                           idQueue |-> st.idQueue])

RECURSIVE SerializeColumnsV1Outer(_, _, _, _)
SerializeColumnsV1Outer(d, buffer, at, st) ==
    IF st.idQueue = <<>> \/ st.err # NoErr THEN st
    ELSE LET parentId == Head(st.idQueue)
             done     == SerializeColumnsV1Inner(d, GetColumnIterable(d, parentId), 1,
                             buffer, at, [st EXCEPT !.idQueue = Tail(st.idQueue)])
         IN  IF done.err # NoErr THEN done
             ELSE SerializeColumnsV1Outer(d, buffer, at,
                      [done EXCEPT !.idQueue = @ \o GetFieldIterable(d, parentId)])

SerializeColumnsV1(d, context, buffer, mem, at) ==
    SerializeColumnsV1Outer(d, buffer, at,
        [err |-> NoErr, size |-> 0, mem |-> mem, ctx |-> context,
         idQueue |-> <<GetFieldZeroId(d)>>])

\* SerializeFieldsV1(desc, context, *where): the value it returns is not
\* added to pos
HeaderFields(cur, d, buffer) ==
    IF cur.err # NoErr THEN cur
    ELSE LET fs == SerializeFieldsV1(d, cur.ctx, buffer, cur.mem, cur.pos)
         IN  [cur EXCEPT !.err = fs.err, !.mem = fs.mem, !.ctx = fs.ctx]

\* pos += SerializeColumnsV1(desc, context, *where)
HeaderColumns(cur, d, buffer) ==
    IF cur.err # NoErr THEN cur
    ELSE LET cs == SerializeColumnsV1(d, cur.ctx, buffer, cur.mem, cur.pos)
         IN  [cur EXCEPT !.err = cs.err, !.mem = cs.mem, !.ctx = cs.ctx,
                         !.pos = cur.pos + cs.size]

\* context.SetHeaderSize(size); if (buffer) context.SetHeaderCRC32(...);
\* return context
HeaderContext(cur, buffer) ==
    IF cur.err # NoErr
    THEN [err |-> cur.err, ctx |-> cur.ctx, mem |-> cur.mem, size |-> cur.size]
    ELSE LET crc == IF buffer THEN ExtractEnvelopeCRC32(cur.mem, cur.size)
                    ELSE [err |-> NoErr, crc32 |-> 0]
             withSize == SetHeaderSize(cur.ctx, cur.size)
         IN  [err  |-> crc.err,
              ctx  |-> IF buffer /\ crc.err = NoErr
                       THEN SetHeaderCRC32(withSize, crc.crc32) ELSE withSize,
              mem  |-> cur.mem,
              size |-> cur.size]

\* [err, ctx, mem, size]: the context returned (on a throw, the local context
\* as it was), the memory behind buffer, and pos - base before the postscript
SerializeHeaderV1(buffer, d, ub) ==
    LET c1 == Emit(NewCursor(NewContext), SerializeEnvelopePreamble(buffer), buffer)
        c2 == Emit(c1, SerializeFeatureFlags(<<>>, buffer), buffer)
        c3 == Emit(c2, SerializeString(d.name, buffer), buffer)
        c4 == Emit(c3, SerializeString(d.description, buffer), buffer)
        c5 == Emit(OpenFrame(c4), SerializeListFramePreamble(GetNFields(d), buffer), buffer)
        c6 == Close(HeaderFields(c5, d, buffer), buffer, ub)
        c7 == Emit(OpenFrame(c6), SerializeListFramePreamble(GetNColumns(d), buffer), buffer)
        c8 == Close(HeaderColumns(c7, d, buffer), buffer, ub)
        \* We don't use alias columns yet
        c9 == Close(Emit(OpenFrame(c8), SerializeListFramePreamble(0, buffer), buffer),
                    buffer, ub)
    IN  HeaderContext(EnvelopeFinish(c9, buffer), buffer)

---------------------------------------------------------------------------
(* Page list *)

\* the elements of a std::set in iteration order: ascending
RECURSIVE Ascending(_)
Ascending(ids) ==
    IF ids = {} THEN <<>>
    ELSE LET least == CHOOSE x \in ids : \A y \in ids : x <= y
         IN  <<least>> \o Ascending(ids \ {least})

\* pi.fNElements and pi.fLocator of the page infos from the i-th on
RECURSIVE EmitPageInfos(_, _, _, _)
EmitPageInfos(cur, pageInfos, i, buffer) ==
    IF i > Len(pageInfos) \/ cur.err # NoErr THEN cur
    ELSE EmitPageInfos(
             Emit(Emit(cur, SerializeUInt32(pageInfos[i].fNElements, buffer), buffer),
                  SerializeLocator(pageInfos[i].fLocator, buffer), buffer),
             pageInfos, i + 1, buffer)

\* Get an ordered set of physical column ids: [err, ids]
RECURSIVE PhysColumnIds(_, _, _, _)
PhysColumnIds(context, columnIds, i, ids) ==
    IF i > Len(columnIds) THEN [err |-> NoErr, ids |-> ids]
    ELSE LET physId == GetPhysClusterId(context, columnIds[i])
         IN  IF physId.err # NoErr THEN [err |-> physId.err, ids |-> ids]
             ELSE PhysColumnIds(context, columnIds, i + 1, ids \cup {physId.val})

\* The inner frames of one cluster for the physical IDs physIds from the i-th
\* on.
RECURSIVE EmitPageRanges(_, _, _, _, _, _, _)
EmitPageRanges(cur, clusterDesc, context, physIds, i, buffer, ub) ==
    IF i > Len(physIds) \/ cur.err # NoErr THEN cur
    ELSE LET memId     == GetMemClusterId(context, physIds[i])
             pageRange == IF memId.err # NoErr THEN memId
                          ELSE GetPageRange(clusterDesc, memId.val)
         IN  IF pageRange.err # NoErr THEN [cur EXCEPT !.err = pageRange.err]
             ELSE EmitPageRanges(
                      Close(
                          EmitPageInfos(
                              Emit(OpenFrame([cur EXCEPT !.ranges[Len(cur.ranges)] =
                                                             Append(@, memId.val)]),
                                   SerializeListFramePreamble(Len(pageRange.val), buffer),
                                   buffer),
                              pageRange.val, 1, buffer),
                          buffer, ub),
                      clusterDesc, context, physIds, i + 1, buffer, ub)

\* The loop over physClusterIDs from the i-th on.
RECURSIVE EmitClusters(_, _, _, _, _, _, _)
EmitClusters(cur, d, context, physClusterIDs, i, buffer, ub) ==
    IF i > Len(physClusterIDs) \/ cur.err # NoErr THEN cur
    ELSE LET memClusterId == GetMemClusterId(context, physClusterIDs[i])
             clusterDesc  == IF memClusterId.err # NoErr THEN memClusterId
                             ELSE GetClusterDescriptor(d, memClusterId.val)
             physColumnIds == PhysColumnIds(context, clusterDesc.val.fColumnIds, 1, {})
         IN  IF clusterDesc.err # NoErr THEN [cur EXCEPT !.err = clusterDesc.err]
             ELSE IF physColumnIds.err # NoErr
             THEN [cur EXCEPT !.err = physColumnIds.err]
             ELSE EmitClusters(
                      Close(
                          EmitPageRanges(
                              Emit(OpenFrame([cur EXCEPT !.ranges = Append(@, <<>>)]),
                                   SerializeListFramePreamble(
                                       Cardinality(physColumnIds.ids), buffer),
                                   buffer),
                              clusterDesc.val, context, Ascending(physColumnIds.ids), 1,
                              buffer, ub),
                          buffer, ub),
                      d, context, physClusterIDs, i + 1, buffer, ub)

\* [err, mem, size, ranges]
SerializePageListV1(buffer, d, physClusterIDs, context, ub) ==
    LET c1 == Emit(NewCursor(context), SerializeEnvelopePreamble(buffer), buffer)
        c2 == Emit(OpenFrame(c1), SerializeListFramePreamble(Len(physClusterIDs), buffer),
                   buffer)
        c3 == Close(EmitClusters(c2, d, context, physClusterIDs, 1, buffer, ub), buffer, ub)
    IN  EnvelopeFinish(c3, buffer)

---------------------------------------------------------------------------
(* Footer *)

\* an empty list frame: preamble and postscript
EmptyListFrame(cur, buffer, ub) ==
    Close(Emit(OpenFrame(cur), SerializeListFramePreamble(0, buffer), buffer), buffer, ub)

\* the cluster summaries of the physical cluster IDs i .. nClusters - 1
RECURSIVE EmitClusterSummaries(_, _, _, _, _)
EmitClusterSummaries(cur, d, i, nClusters, buffer) ==
    IF i >= nClusters \/ cur.err # NoErr THEN cur
    ELSE LET memId       == GetMemClusterId(cur.ctx, i)
             clusterDesc == IF memId.err # NoErr THEN memId
                            ELSE GetClusterDescriptor(d, memId.val)
         IN  IF clusterDesc.err # NoErr THEN [cur EXCEPT !.err = clusterDesc.err]
             ELSE EmitClusterSummaries(
                      Emit(cur,
                           SerializeClusterSummary(
                               [fFirstEntry    |-> clusterDesc.val.fFirstEntryIndex,
                                fNEntries      |-> clusterDesc.val.fNEntries,
                                fColumnGroupID |-> -1],
                               buffer),
                           buffer),
                      d, i + 1, nClusters, buffer)

RECURSIVE EmitClusterGroups(_, _, _, _)
EmitClusterGroups(cur, clusterGroups, i, buffer) ==
    IF i > Len(clusterGroups) \/ cur.err # NoErr THEN cur
    ELSE EmitClusterGroups(Emit(cur, SerializeClusterGroup(clusterGroups[i], buffer), buffer),
                           clusterGroups, i + 1, buffer)

\* [err, mem, size]
SerializeFooterV1(buffer, d, context, ub) ==
    LET c1 == Emit(NewCursor(context), SerializeEnvelopePreamble(buffer), buffer)
        c2 == Emit(c1, SerializeFeatureFlags(<<>>, buffer), buffer)
        c3 == Emit(c2, SerializeUInt32(GetHeaderCRC32(context), buffer), buffer)
        c4 == EmptyListFrame(c3, buffer, ub)   \* extension headers
        c5 == EmptyListFrame(c4, buffer, ub)   \* column groups
        c6 == Close(
                  EmitClusterSummaries(
                      Emit(OpenFrame(c5), SerializeListFramePreamble(GetNClusters(d), buffer),
                           buffer),
                      d, 0, GetNClusters(d), buffer),
                  buffer, ub)
        c7 == Close(
                  EmitClusterGroups(
                      Emit(OpenFrame(c6),
                           SerializeListFramePreamble(Len(GetClusterGroups(context)), buffer),
                           buffer),
                      GetClusterGroups(context), 1, buffer),
                  buffer, ub)
        c8 == EmptyListFrame(c7, buffer, ub)   \* meta-data
    IN  EnvelopeFinish(c8, buffer)

---------------------------------------------------------------------------
(* Descriptors the serializers are run on *)

MaxFields == 4      \* fields of a descriptor, field zero included
MaxColumns == 1     \* columns of a descriptor
MaxClusters == 1    \* clusters of a descriptor

\* parent[i] for the fields 1..n-1 of a tree rooted in field zero
FieldTrees(n) == {parent \in [1..(n - 1) -> 0..(n - 2)] : \A i \in 1..(n - 1) : parent[i] < i}

MakeField(n, parent, i) ==
    LET kids == {j \in 1..(n - 1) : parent[j] = i}
    IN  [fieldVersion     |-> i % 2,
         typeVersion      |-> 0,
         structure        |-> IF kids = {} THEN "kLeaf" ELSE "kRecord",
         nRepetitions     |-> IF i > 0 /\ i % 2 = 0 THEN 2 ELSE 0,
         fieldName        |-> IF i = 0 THEN <<>> ELSE <<97 + i>>,
         typeName         |-> IF kids = {} THEN <<102>> ELSE <<>>,
         fieldDescription |-> <<>>,
         fLinkIds         |-> Ascending(kids)]

MakeColumn(j, fieldId) ==
    [fColumnId |-> j, fFieldId |-> fieldId,
     type      |-> IF j % 2 = 0 THEN "kIndex" ELSE "kReal32",
     isSorted  |-> j % 2 = 0]

MakePageInfo(clusterId, columnId) ==
    [fNElements |-> columnId + 1,
     fLocator   |-> [fPosition |-> 16 * clusterId + columnId, fBytesOnStorage |-> 8,
                     fUrl |-> <<>>]]

MakeCluster(clusterId, nColumns) ==
    [fFirstEntryIndex |-> 10 * clusterId,
     fNEntries        |-> 10,
     fColumnIds       |-> [j \in 1..nColumns |-> j - 1],
     fPageRanges      |-> [c \in 0..(nColumns - 1) |-> <<MakePageInfo(clusterId, c)>>]]

DescriptorNames == {<<>>, <<110, 116>>}

\* the descriptor with n fields linked as parent says, column j of field
\* placement[j + 1], and nClusters clusters of all the columns
MakeDescriptor(name, n, parent, placement, nClusters) ==
    [name        |-> name,
     description |-> <<>>,
     fieldZero   |-> 0,
     fields      |-> [i \in 0..(n - 1) |-> MakeField(n, parent, i)],
     columns     |-> [j \in 1..Len(placement) |-> MakeColumn(j - 1, placement[j])],
     clusters    |-> [c \in 0..(nClusters - 1) |-> MakeCluster(c, Len(placement))]]

Descriptors ==
    UNION {UNION {UNION {
        {MakeDescriptor(name, n, parent, placement, nClusters) :
            name \in DescriptorNames, nClusters \in 0..MaxClusters} :
        placement \in [1..k -> 0..(n - 1)]} :
        parent \in FieldTrees(n)} :
        n \in 1..MaxFields, k \in 0..MaxColumns}

---------------------------------------------------------------------------
(* Writing a document: header, then the caller registers clusters and        *)
(* cluster groups on the context the header returned, then the footer.       *)

MaxClusterGroups == 2   \* AddClusterGroup calls on one context

Locators ==
    {[fPosition |-> 258, fBytesOnStorage |-> 42, fUrl |-> <<>>],
     [fPosition |-> 0, fBytesOnStorage |-> 0, fUrl |-> <<104, 105>>]}

EnvelopeLinks == {[fUnzippedSize |-> 64, fLocator |-> l] : l \in Locators}

\* a fault ends the process
Crashed == \E r \in {hdrNull, hdrReal, plist, ftr} : r # None /\ r.err = "SIGSEGV"

HeaderDone == hdrReal # None /\ hdrReal.err = NoErr

Init ==
    /\ desc \in Descriptors
    /\ ctx = NewContext
    /\ hdrNull = None
    /\ hdrReal = None
    /\ plist = None
    /\ ftr = None
    /\ mapLog = <<>>
    /\ call = None
    /\ ret = None

\* the size pass: SerializeHeaderV1(nullptr, desc)
CallSerializeHeaderV1Null ==
    /\ ~Crashed
    /\ hdrNull = None
    /\ \E ub \in UBOutcomes : hdrNull' = SerializeHeaderV1(FALSE, desc, ub)
    /\ UNCHANGED <<desc, ctx, hdrReal, plist, ftr, mapLog, call, ret>>

\* context = SerializeHeaderV1(buffer, desc)
CallSerializeHeaderV1Real ==
    /\ ~Crashed
    /\ hdrReal = None
    /\ LET r == SerializeHeaderV1(TRUE, desc, "fault")
       IN  /\ hdrReal' = r
           /\ ctx' = IF r.err = NoErr THEN r.ctx ELSE ctx
    /\ UNCHANGED <<desc, hdrNull, plist, ftr, mapLog, call, ret>>

\* context.MapClusterId(memId) for a cluster of the descriptor
CallMapClusterId ==
    /\ ~Crashed
    /\ HeaderDone
    /\ ftr = None
    /\ Len(ctx.fPhys2MemClusterIDs) < GetNClusters(desc)
    /\ \E memId \in DOMAIN desc.clusters :
          LET r == MapClusterId(ctx, memId)
          IN  /\ ctx' = r.ctx
              /\ mapLog' = Append(mapLog, <<"cluster", memId, r.physId>>)
    /\ UNCHANGED <<desc, hdrNull, hdrReal, plist, ftr, call, ret>>

\* context.AddClusterGroup(nClusters, pageListEnvelope)
CallAddClusterGroup ==
    /\ ~Crashed
    /\ HeaderDone
    /\ ftr = None
    /\ Len(ctx.fClusterGroups) < MaxClusterGroups
    /\ \E link \in EnvelopeLinks :
          ctx' = AddClusterGroup(ctx, Len(ctx.fPhys2MemClusterIDs), link)
    /\ UNCHANGED <<desc, hdrNull, hdrReal, plist, ftr, mapLog, call, ret>>

\* SerializeFooterV1(buffer, desc, context), with nullptr or a real buffer
CallSerializeFooterV1 ==
    /\ ~Crashed
    /\ HeaderDone
    /\ ftr = None
    /\ \E buffer \in BOOLEAN, ub \in UBOutcomes :
          ftr' = [buffer |-> buffer] @@ SerializeFooterV1(buffer, desc, ctx, ub)
    /\ UNCHANGED <<desc, ctx, hdrNull, hdrReal, plist, mapLog, call, ret>>

Next ==
    \/ CallSerializeHeaderV1Null
    \/ CallSerializeHeaderV1Real
    \/ CallMapClusterId
    \/ CallAddClusterGroup
    \/ CallSerializeFooterV1

Spec == Init /\ [][Next]_vars

---------------------------------------------------------------------------
(* Writing the footer of a document with several clusters: the same calls   *)
(* on a descriptor without columns.                                         *)

MaxFooterClusters == 2   \* clusters of a descriptor whose footer is written

FooterDescriptors ==
    {MakeDescriptor(<<>>, 1, <<>>, <<>>, nClusters) : nClusters \in 0..MaxFooterClusters}

InitFooter ==
    /\ desc \in FooterDescriptors
    /\ ctx = NewContext
    /\ hdrNull = None
    /\ hdrReal = None
    /\ plist = None
    /\ ftr = None
    /\ mapLog = <<>>
    /\ call = None
    /\ ret = None

SpecFooter == InitFooter /\ [][Next]_vars

---------------------------------------------------------------------------
(* A context used on its own: any sequence of Map*Id calls.  mapLog keeps,  *)
(* per call, <<kind, in-memory ID, value returned>>.                        *)

MaxMemId == 1       \* in-memory IDs handed to Map*Id are 0..MaxMemId
MaxMapCalls == 4    \* Map*Id calls on one context

InitContext ==
    /\ desc = MakeDescriptor(<<>>, 1, <<>>, <<>>, 0)
    /\ ctx = NewContext
    /\ hdrNull = None
    /\ hdrReal = None
    /\ plist = None
    /\ ftr = None
    /\ mapLog = <<>>
    /\ call = None
    /\ ret = None

\* context.MapFieldId(memId)
ContextMapFieldId ==
    /\ Len(mapLog) < MaxMapCalls
    /\ plist = None
    /\ \E memId \in 0..MaxMemId :
          /\ ctx' = MapFieldId(ctx, memId).ctx
          /\ mapLog' = Append(mapLog, <<"field", memId, MapFieldId(ctx, memId).physId>>)
    /\ UNCHANGED <<desc, hdrNull, hdrReal, plist, ftr, call, ret>>

\* context.MapColumnId(memId)
ContextMapColumnId ==
    /\ Len(mapLog) < MaxMapCalls
    /\ plist = None
    /\ \E memId \in 0..MaxMemId :
          /\ ctx' = MapColumnId(ctx, memId).ctx
          /\ mapLog' = Append(mapLog, <<"column", memId, MapColumnId(ctx, memId).physId>>)
    /\ UNCHANGED <<desc, hdrNull, hdrReal, plist, ftr, call, ret>>

\* context.MapClusterId(memId)
ContextMapClusterId ==
    /\ Len(mapLog) < MaxMapCalls
    /\ plist = None
    /\ \E memId \in 0..MaxMemId :
          /\ ctx' = MapClusterId(ctx, memId).ctx
          /\ mapLog' = Append(mapLog, <<"cluster", memId, MapClusterId(ctx, memId).physId>>)
    /\ UNCHANGED <<desc, hdrNull, hdrReal, plist, ftr, call, ret>>

\* what a read past the end of a vector can give: the access faults, or it
\* yields whatever lies in memory there
UndefinedRead(r, ub, v) ==
    IF r.err # "undefined" THEN r
    ELSE IF ub = "fault" THEN [err |-> "SIGSEGV", val |-> None]
    ELSE [err |-> NoErr, val |-> v]

\* context.GetPhysFieldId(memId) / GetPhysColumnId / GetPhysClusterId
ContextGetPhysId ==
    /\ \E kind \in {"field", "column", "cluster"}, memId \in 0..MaxMemId :
          /\ call' = [op |-> "GetPhysId", kind |-> kind, id |-> memId]
          /\ ret' = CASE kind = "field"   -> GetPhysFieldId(ctx, memId)
                      [] kind = "column"  -> GetPhysColumnId(ctx, memId)
                      [] kind = "cluster" -> GetPhysClusterId(ctx, memId)
    /\ UNCHANGED <<desc, ctx, hdrNull, hdrReal, plist, ftr, mapLog>>

\* context.GetMemFieldId(physId) / GetMemColumnId / GetMemClusterId
ContextGetMemId ==
    /\ \E kind \in {"field", "column", "cluster"}, physId \in 0..MaxMapCalls,
          ub \in UBOutcomes, v \in 0..MaxMemId :
          /\ call' = [op |-> "GetMemId", kind |-> kind, id |-> physId]
          /\ ret' = UndefinedRead(
                        CASE kind = "field"   -> GetMemFieldId(ctx, physId)
                          [] kind = "column"  -> GetMemColumnId(ctx, physId)
                          [] kind = "cluster" -> GetMemClusterId(ctx, physId), ub, v)
    /\ UNCHANGED <<desc, ctx, hdrNull, hdrReal, plist, ftr, mapLog>>

NextContext ==
    \/ ContextMapFieldId
    \/ ContextMapColumnId
    \/ ContextMapClusterId
    \/ ContextGetPhysId
    \/ ContextGetMemId

SpecContext == InitContext /\ [][NextContext]_vars

---------------------------------------------------------------------------
(* A page list: the caller registers columns and clusters on a context and  *)
(* then serializes the page list of some physical cluster IDs.              *)

MaxPageListClusters == 2   \* physical cluster IDs given to SerializePageListV1

\* two columns on one leaf field, one or two clusters
PageListDescriptors ==
    {MakeDescriptor(<<>>, 2, <<0>>, <<1, 1>>, nClusters) : nClusters \in 1..2}

RECURSIVE SeqsUpTo(_, _)
SeqsUpTo(S, n) ==
    IF n = 0 THEN {<<>>}
    ELSE SeqsUpTo(S, n - 1) \cup {Append(q, x) : q \in SeqsUpTo(S, n - 1), x \in S}

InitPageList ==
    /\ desc \in PageListDescriptors
    /\ ctx = NewContext
    /\ hdrNull = None
    /\ hdrReal = None
    /\ plist = None
    /\ ftr = None
    /\ mapLog = <<>>
    /\ call = None
    /\ ret = None

\* SerializePageListV1(buffer, desc, physClusterIDs, context)
CallSerializePageListV1 ==
    /\ plist = None
    /\ \E buffer \in BOOLEAN, ub \in UBOutcomes,
          physClusterIDs \in SeqsUpTo(0..MaxMemId, MaxPageListClusters) :
          plist' = [buffer |-> buffer, physClusterIDs |-> physClusterIDs]
                   @@ SerializePageListV1(buffer, desc, physClusterIDs, ctx, ub)
    /\ UNCHANGED <<desc, ctx, hdrNull, hdrReal, ftr, mapLog, call, ret>>

NextPageList ==
    \/ ContextMapColumnId
    \/ ContextMapClusterId
    \/ CallSerializePageListV1

SpecPageList == InitPageList /\ [][NextPageList]_vars

---------------------------------------------------------------------------
(* The codecs called on their own.  call is the last call and its inputs,   *)
(* ret what it returned; for a Deserialize* call, prior is the caller's     *)
(* output object before the call and ret.out the object after it.           *)

MaxFlags == 2       \* entries of a feature flag list

FlagValues == {-1, 0, 1, 5}

FlagLists == SeqsUpTo(FlagValues, MaxFlags)

Prefixes(w) == {SubSeq(w, 1, k) : k \in 0..Len(w)}

StringBuffers ==
    UNION {Prefixes(SerializeString(v, TRUE).w) : v \in {<<>>, <<104, 105>>}}

FeatureFlagBuffers ==
    UNION {Prefixes(SerializeFeatureFlags(f, TRUE).w) : f \in {<<5>>, <<1, 5>>}}

\* a list or record frame head, a number of items, and what follows
FrameBuffers ==
    UNION {Prefixes(SerializeInt32(size, TRUE).w \o SerializeInt32(nitems, TRUE).w
                    \o <<0, 0, 0, 0>>) :
           size \in {-12, -8, -4, 0, 4, 12, 16},
           nitems \in {0, 1, Pow2(28) - 1, Pow2(28), Pow2(28) + 3, -1}}

\* locators as written, cut short, and one of a type that is not 0x02
LocatorBuffers ==
    UNION {Prefixes(SerializeLocator(l, TRUE).w) : l \in Locators}
    \cup {SerializeInt32(-(3 * Pow2(24) + 1), TRUE).w \o <<104>>}
    \cup {SerializeInt32(head, TRUE).w \o <<104, 105, 0, 0, 0, 0, 0, 0>> :
             head \in {Int32Min, Int32Min + 1, -(3 * Pow2(24)), -(2 * Pow2(24) + 2),
                       -(2 * Pow2(24)), -(2 * Pow2(24)) + 1, -1, 0, 1, 2147483647}}

EnvelopeLinkBuffers ==
    UNION {Prefixes(SerializeEnvelopeLink(l, TRUE).w) : l \in EnvelopeLinks}

ClusterSummaries ==
    {[fFirstEntry |-> 30, fNEntries |-> 10, fColumnGroupID |-> g] : g \in {-1, 2}}

\* cluster summaries as written, cut short, and one whose frame ends before
\* the column group ID that its negative entry count announces
ClusterSummaryBuffers ==
    UNION {Prefixes(SerializeClusterSummary(c, TRUE).w) : c \in ClusterSummaries}
    \cup {SerializeInt32(20, TRUE).w \o SerializeUInt64(30, TRUE).w
          \o SerializeInt64(-10, TRUE).w}

ClusterGroups == {[fNClusters |-> 3, fPageListEnvelopeLink |-> l] : l \in EnvelopeLinks}

\* cluster groups as written, cut short, and one whose frame ends after the
\* number of clusters
ClusterGroupBuffers ==
    UNION {Prefixes(SerializeClusterGroup(g, TRUE).w) : g \in ClusterGroups}
    \cup {SerializeInt32(8, TRUE).w \o SerializeUInt32(3, TRUE).w}

\* cluster summaries to write and read back
RoundTripClusterSummaries ==
    {[fFirstEntry |-> f, fNEntries |-> n, fColumnGroupID |-> g] :
        f \in {0, 30, 2147483647}, n \in {0, 1, 10, 2147483647},
        g \in {-1, 0, 2, 2147483647}}

\* a URL of n bytes
UrlBytes(n) == [i \in 1..n |-> 97 + (i % 26)]

\* locators to write and read back: inline ones, and ones with a URL only
RoundTripLocators ==
    {[fPosition |-> p, fBytesOnStorage |-> s, fUrl |-> <<>>] :
        p \in {0, 258, 2147483647}, s \in {0, 42, 2147483647}}
    \cup {[fPosition |-> 0, fBytesOnStorage |-> 0, fUrl |-> UrlBytes(n)] : n \in {1, 2, 300}}

\* output objects as the caller may hold them before a Deserialize* call
PriorStrings == {<<>>, <<120>>}
PriorFlags == {<<>>, <<7>>}
PriorLocators ==
    {[fPosition |-> 0, fBytesOnStorage |-> 0, fUrl |-> <<>>],
     [fPosition |-> 77, fBytesOnStorage |-> 7, fUrl |-> <<>>]}
PriorEnvelopeLinks == {[fUnzippedSize |-> u, fLocator |-> l] : u \in {0, 9}, l \in PriorLocators}
PriorClusterSummaries == {[fFirstEntry |-> 0, fNEntries |-> 0, fColumnGroupID |-> 0],
                          [fFirstEntry |-> 8, fNEntries |-> 9, fColumnGroupID |-> -1]}
PriorClusterGroups ==
    {[fNClusters |-> n, fPageListEnvelopeLink |-> l] : n \in {0, 6}, l \in PriorEnvelopeLinks}

InitCodec ==
    /\ desc = MakeDescriptor(<<>>, 1, <<>>, <<>>, 0)
    /\ ctx = NewContext
    /\ hdrNull = None
    /\ hdrReal = None
    /\ plist = None
    /\ ftr = None
    /\ mapLog = <<>>
    /\ call = None
    /\ ret = None

\* SerializeFeatureFlags(flags, buffer), with nullptr or a real buffer
CallSerializeFeatureFlags ==
    /\ \E flags \in FlagLists, buffer \in BOOLEAN :
          /\ call' = [op |-> "SerializeFeatureFlags", flags |-> flags, buffer |-> buffer]
          /\ ret' = SerializeFeatureFlags(flags, buffer)
    /\ UNCHANGED <<desc, ctx, hdrNull, hdrReal, plist, ftr, mapLog>>

\* DeserializeFeatureFlags on the bytes SerializeFeatureFlags wrote for flags
CallFeatureFlagsRoundTrip ==
    /\ \E flags \in FlagLists, prior \in PriorFlags :
          /\ SerializeFeatureFlags(flags, TRUE).err = NoErr
          /\ call' = [op |-> "FeatureFlagsRoundTrip", flags |-> flags, prior |-> prior]
          /\ ret' = DeserializeFeatureFlags(SerializeFeatureFlags(flags, TRUE).w,
                                            SerializeFeatureFlags(flags, TRUE).n, prior)
    /\ UNCHANGED <<desc, ctx, hdrNull, hdrReal, plist, ftr, mapLog>>

\* DeserializeFrame(buffer, bufSize, frameSize, nitems)
CallDeserializeFrame ==
    /\ \E b \in FrameBuffers :
          /\ call' = [op |-> "DeserializeFrame", b |-> b]
          /\ ret' = DeserializeFrame(b, Len(b))
    /\ UNCHANGED <<desc, ctx, hdrNull, hdrReal, plist, ftr, mapLog>>

\* DeserializeString(buffer, size, val)
CallDeserializeString ==
    /\ \E b \in StringBuffers, prior \in PriorStrings :
          /\ call' = [op |-> "DeserializeString", b |-> b, prior |-> prior]
          /\ ret' = DeserializeString(b, Len(b), prior)
    /\ UNCHANGED <<desc, ctx, hdrNull, hdrReal, plist, ftr, mapLog>>

\* DeserializeFeatureFlags(buffer, size, flags)
CallDeserializeFeatureFlags ==
    /\ \E b \in FeatureFlagBuffers, prior \in PriorFlags :
          /\ call' = [op |-> "DeserializeFeatureFlags", b |-> b, prior |-> prior]
          /\ ret' = DeserializeFeatureFlags(b, Len(b), prior)
    /\ UNCHANGED <<desc, ctx, hdrNull, hdrReal, plist, ftr, mapLog>>

\* DeserializeLocator(buffer, bufSize, locator)
CallDeserializeLocator ==
    /\ \E b \in LocatorBuffers, prior \in PriorLocators :
          /\ call' = [op |-> "DeserializeLocator", b |-> b, prior |-> prior]
          /\ ret' = DeserializeLocator(b, Len(b), prior)
    /\ UNCHANGED <<desc, ctx, hdrNull, hdrReal, plist, ftr, mapLog>>

\* DeserializeEnvelopeLink(buffer, bufSize, envelopeLink)
CallDeserializeEnvelopeLink ==
    /\ \E b \in EnvelopeLinkBuffers, prior \in PriorEnvelopeLinks :
          /\ call' = [op |-> "DeserializeEnvelopeLink", b |-> b, prior |-> prior]
          /\ ret' = DeserializeEnvelopeLink(b, Len(b), prior)
    /\ UNCHANGED <<desc, ctx, hdrNull, hdrReal, plist, ftr, mapLog>>

\* DeserializeClusterSummary(buffer, bufSize, clusterSummary)
CallDeserializeClusterSummary ==
    /\ \E b \in ClusterSummaryBuffers, prior \in PriorClusterSummaries :
          /\ call' = [op |-> "DeserializeClusterSummary", b |-> b, prior |-> prior]
          /\ ret' = DeserializeClusterSummary(b, Len(b), prior)
    /\ UNCHANGED <<desc, ctx, hdrNull, hdrReal, plist, ftr, mapLog>>

\* DeserializeClusterGroup(buffer, bufSize, clusterGroup)
CallDeserializeClusterGroup ==
    /\ \E b \in ClusterGroupBuffers, prior \in PriorClusterGroups :
          /\ call' = [op |-> "DeserializeClusterGroup", b |-> b, prior |-> prior]
          /\ ret' = DeserializeClusterGroup(b, Len(b), prior)
    /\ UNCHANGED <<desc, ctx, hdrNull, hdrReal, plist, ftr, mapLog>>

\* SerializeLocator(locator, buffer), then DeserializeLocator on the bytes
\* written, with the size written as bufSize
CallLocatorRoundTrip ==
    /\ \E locator \in RoundTripLocators, prior \in PriorLocators :
          LET ser == SerializeLocator(locator, TRUE)
          IN  /\ ser.err = NoErr
              /\ call' = [op |-> "LocatorRoundTrip", locator |-> locator, prior |-> prior]
              /\ ret' = [written |-> ser.n, sizeOnly |-> SerializeLocator(locator, FALSE).n]
                        @@ DeserializeLocator(ser.w, ser.n, prior)
    /\ UNCHANGED <<desc, ctx, hdrNull, hdrReal, plist, ftr, mapLog>>

\* SerializeClusterSummary(clusterSummary, buffer), then
\* DeserializeClusterSummary on the record frame written
CallClusterSummaryRoundTrip ==
    /\ \E s \in RoundTripClusterSummaries, prior \in PriorClusterSummaries :
          LET ser == SerializeClusterSummary(s, TRUE)
          IN  /\ ser.err = NoErr
              /\ call' = [op |-> "ClusterSummaryRoundTrip", s |-> s, prior |-> prior]
              /\ ret' = [written |-> ser.n] @@ DeserializeClusterSummary(ser.w, ser.n, prior)
    /\ UNCHANGED <<desc, ctx, hdrNull, hdrReal, plist, ftr, mapLog>>

NextCodec ==
    \/ CallSerializeFeatureFlags
    \/ CallFeatureFlagsRoundTrip
    \/ CallDeserializeFrame
    \/ CallDeserializeString
    \/ CallDeserializeFeatureFlags
    \/ CallDeserializeLocator
    \/ CallDeserializeEnvelopeLink
    \/ CallDeserializeClusterSummary
    \/ CallDeserializeClusterGroup
    \/ CallLocatorRoundTrip
    \/ CallClusterSummaryRoundTrip

SpecCodec == InitCodec /\ [][NextCodec]_vars

---------------------------------------------------------------------------
(* Envelopes: one call of DeserializeEnvelope on a buffer.  The buffer is   *)
(* an envelope as the serializer writes it, such an envelope with one byte  *)
(* changed, a buffer with a correct trailing CRC and arbitrary version      *)
(* words, or a buffer too short to be an envelope.                          *)

MaxPayload == 2     \* bytes of payload between preamble and CRC

PayloadBytes == {0, 255}

Payloads == SeqsUpTo(PayloadBytes, MaxPayload)

EnvelopeVersions == {0, 1, 2, 65535}

\* SerializeEnvelopePreamble, the payload, SerializeEnvelopePostscript
WriteEnvelope(payload) ==
    LET body == SerializeEnvelopePreamble(TRUE).w \o payload
    IN  body \o SerializeEnvelopePostscript(body, Len(body), TRUE).w

\* version words and payload followed by their CRC-32
SealedBuffer(atWrite, minRequired, payload) ==
    LET body == SerializeUInt16(atWrite, TRUE).w \o SerializeUInt16(minRequired, TRUE).w
                \o payload
    IN  body \o SerializeCRC32(body, Len(body), TRUE).w

\* buffer b with the byte at offset i - 1 set to v
WithByte(b, i, v) == SubSeq([k \in 1..Len(b) |-> IF k = i THEN v ELSE b[k]], 1, Len(b))

\* the call to make: an envelope as written, one with the byte at offset
\* at - 1 changed, a sealed buffer with any version words, a short buffer
EnvelopeCall(op, b, at, atWrite, minRequired) ==
    [op |-> op, b |-> b, at |-> at, atWrite |-> atWrite, minRequired |-> minRequired]

InitEnvelope ==
    /\ desc = MakeDescriptor(<<>>, 1, <<>>, <<>>, 0)
    /\ ctx = NewContext
    /\ hdrNull = None
    /\ hdrReal = None
    /\ plist = None
    /\ ftr = None
    /\ mapLog = <<>>
    /\ ret = None
    /\ \/ \E p \in Payloads :
             call = EnvelopeCall("EnvelopeRoundTrip", WriteEnvelope(p), 0, 1, 1)
       \/ \E p \in Payloads :
             \E e \in {WriteEnvelope(p)} :
                \E i \in 1..Len(e), v \in 0..255 :
                   /\ v # e[i]
                   /\ call = EnvelopeCall("EnvelopeCorrupted", WithByte(e, i, v), i, 1, 1)
       \/ \E w \in EnvelopeVersions, m \in EnvelopeVersions, p \in Payloads :
             call = EnvelopeCall("DeserializeEnvelope", SealedBuffer(w, m, p), 0, w, m)
       \/ \E w \in {0, 1}, m \in {1, 2} :
             \E s \in Prefixes(SealedBuffer(w, m, <<0, 255>>)) :
                /\ Len(s) < 8
                /\ call = EnvelopeCall("DeserializeEnvelope", s, 0, w, m)

\* DeserializeEnvelope on an envelope as written
CallEnvelopeRoundTrip ==
    /\ ret = None
    /\ call.op = "EnvelopeRoundTrip"
    /\ ret' = DeserializeEnvelope(call.b, Len(call.b))
    /\ UNCHANGED <<desc, ctx, hdrNull, hdrReal, plist, ftr, mapLog, call>>

\* DeserializeEnvelope on an envelope one byte of which was changed
CallEnvelopeCorrupted ==
    /\ ret = None
    /\ call.op = "EnvelopeCorrupted"
    /\ ret' = DeserializeEnvelope(call.b, Len(call.b))
    /\ UNCHANGED <<desc, ctx, hdrNull, hdrReal, plist, ftr, mapLog, call>>

\* DeserializeEnvelope(buffer, bufSize)
CallDeserializeEnvelope ==
    /\ ret = None
    /\ call.op = "DeserializeEnvelope"
    /\ ret' = DeserializeEnvelope(call.b, Len(call.b))
    /\ UNCHANGED <<desc, ctx, hdrNull, hdrReal, plist, ftr, mapLog, call>>

NextEnvelope ==
    \/ CallEnvelopeRoundTrip
    \/ CallEnvelopeCorrupted
    \/ CallDeserializeEnvelope

SpecEnvelope == InitEnvelope /\ [][NextEnvelope]_vars

---------------------------------------------------------------------------
(* Frames: one call of SerializeListFramePreamble, or one frame written the *)
(* way the serializers write it: remember the start, emit the preamble and  *)
(* the payload, close with SerializeFramePostscript(frame, pos - frame).    *)

MaxFramePayload == 2    \* bytes of payload in a frame

FramePayloads == SeqsUpTo({0, 255}, MaxFramePayload)

\* numbers of items, as 32-bit patterns: up to, at and past the limit
ListItemCounts == {0, 1, Pow2(28) - 1, Pow2(28), Pow2(28) + 1, 2147483647, Int32Min, -1}

\* bytes already in the buffer in front of the frame
FrameLeads == {0, 3}

\* lead bytes, then one frame with the payload; yields the cursor
WriteFrame(kind, nitems, payload, lead) ==
    LET c0 == Emit(NewCursor(NewContext),
                   [err |-> NoErr, n |-> lead, w |-> SubSeq(<<7, 7, 7>>, 1, lead)], TRUE)
        c1 == OpenFrame(c0)
        c2 == Emit(c1, IF kind = "list" THEN SerializeListFramePreamble(nitems, TRUE)
                       ELSE SerializeRecordFramePreamble(TRUE), TRUE)
        c3 == Emit(c2, [err |-> NoErr, n |-> Len(payload), w |-> payload], TRUE)
    IN  Close(c3, TRUE, "fault")

FrameCalls ==
    {[op |-> "WriteFrame", kind |-> k, nitems |-> n, payload |-> p, lead |-> l, buffer |-> TRUE] :
        k \in {"list", "record"}, n \in {0, 1, Pow2(28) - 1}, p \in FramePayloads,
        l \in FrameLeads}
    \cup {[op |-> "SerializeListFramePreamble", kind |-> "list", nitems |-> n,
           payload |-> <<>>, lead |-> 0, buffer |-> b] :
          n \in ListItemCounts, b \in BOOLEAN}

InitFrame ==
    /\ desc = MakeDescriptor(<<>>, 1, <<>>, <<>>, 0)
    /\ ctx = NewContext
    /\ hdrNull = None
    /\ hdrReal = None
    /\ plist = None
    /\ ftr = None
    /\ mapLog = <<>>
    /\ call \in FrameCalls
    /\ ret = None

\* preamble, payload, SerializeFramePostscript
CallWriteFrame ==
    /\ ret = None
    /\ call.op = "WriteFrame"
    /\ ret' = WriteFrame(call.kind, call.nitems, call.payload, call.lead)
    /\ UNCHANGED <<desc, ctx, hdrNull, hdrReal, plist, ftr, mapLog, call>>

\* SerializeListFramePreamble(nitems, buffer)
CallSerializeListFramePreamble ==
    /\ ret = None
    /\ call.op = "SerializeListFramePreamble"
    /\ ret' = SerializeListFramePreamble(call.nitems, call.buffer)
    /\ UNCHANGED <<desc, ctx, hdrNull, hdrReal, plist, ftr, mapLog, call>>

NextFrame ==
    \/ CallWriteFrame
    \/ CallSerializeListFramePreamble

SpecFrame == InitFrame /\ [][NextFrame]_vars

---------------------------------------------------------------------------
(* Locators: one call of SerializeLocator, on inline locators whose         *)
(* bytes_on_storage lies around 2^31 and on URL locators whose length lies  *)
(* around 2^24.                                                             *)

\* fBytesOnStorage as 32-bit patterns: Int32Min is 2^31, -1 is 2^32 - 1
LocatorSizes == {0, 1, 42, 2147483646, 2147483647, Int32Min, Int32Min + 1, -1}

LocatorPositions == {0, 258, 65536}

\* a URL of n bytes
UrlOfLength(n) == [i \in 1..n |-> 104]

LocatorUrlLengths == {1, 2, Pow2(24) - 1, Pow2(24)}

\* position, bytes on storage and URL length of the locator to serialize;
\* the URL itself is made when the call is
LocatorCalls ==
    {[op |-> "SerializeLocator", buffer |-> b, fPosition |-> p, fBytesOnStorage |-> s,
      urlLength |-> 0] :
        s \in LocatorSizes, p \in LocatorPositions, b \in BOOLEAN}
    \cup {[op |-> "SerializeLocator", buffer |-> b, fPosition |-> 0, fBytesOnStorage |-> 0,
           urlLength |-> n] :
          n \in LocatorUrlLengths, b \in BOOLEAN}

InitLocator ==
    /\ desc = MakeDescriptor(<<>>, 1, <<>>, <<>>, 0)
    /\ ctx = NewContext
    /\ hdrNull = None
    /\ hdrReal = None
    /\ plist = None
    /\ ftr = None
    /\ mapLog = <<>>
    /\ call \in LocatorCalls
    /\ ret = None

\* SerializeLocator(locator, buffer)
CallSerializeLocator ==
    /\ ret = None
    /\ call.op = "SerializeLocator"
    /\ ret' = SerializeLocator([fPosition       |-> call.fPosition,
                                 fBytesOnStorage |-> call.fBytesOnStorage,
                                 fUrl            |-> UrlOfLength(call.urlLength)],
                                call.buffer)
    /\ UNCHANGED <<desc, ctx, hdrNull, hdrReal, plist, ftr, mapLog, call>>

NextLocator == CallSerializeLocator

SpecLocator == InitLocator /\ [][NextLocator]_vars

---------------------------------------------------------------------------
(* Primitives: one value (an integer, a string, a column type) serialized   *)
(* by the function of its type and read back by the matching Deserialize    *)
(* function, or one on-disk column type tag deserialized.  32-bit unsigned  *)
(* values are given by their bit patterns.                                  *)

Int16Values == -32768..32767

UInt16Values == 0..65535

Int32Values ==
    {Int32Min, Int32Min + 1, -16777216, -65536, -32769, -32768, -256, -129, -128, -1,
     0, 1, 127, 128, 255, 256, 32767, 32768, 65535, 65536, 16909060, 2147483647}

Int64Halves == {Int32Min, -16777216, -1, 0, 1, 255, 16909060, 2147483647}

IntegerOps == {"Int16", "UInt16", "Int32", "UInt32", "Int64", "UInt64"}

\* the values of a type; a 64-bit value is given by its halves hi and lo
IntegerValues(op) ==
    CASE op = "Int16"  -> Int16Values
      [] op = "UInt16" -> UInt16Values
      [] op \in {"Int32", "UInt32"} -> Int32Values
      [] op \in {"Int64", "UInt64"} -> {0}

IntegerHalves(op) == IF op \in {"Int64", "UInt64"} THEN Int64Halves ELSE {0}

\* what Serialize<T>(val, buffer) returned and wrote, and, for a real
\* buffer, what Deserialize<T> returned and left in its output parameter
IntegerRoundTrip(ser, back, buffer) ==
    [n |-> ser.n, w |-> ser.w,
     m   |-> IF buffer THEN back.n ELSE 0,
     out |-> IF buffer THEN back.val ELSE None]

MaxString == 2      \* bytes of a string

StringValues == SeqsUpTo({0, 104, 255}, MaxString)

\* the column types of the serializer's switch, and one it does not know
ColumnTypes ==
    {"kIndex", "kSwitch", "kByte", "kBit", "kReal64", "kReal32", "kReal16", "kInt64",
     "kInt32", "kInt16", "kUnknown"}

OnDiskTags == 0..65535

InitPrimitive ==
    /\ desc = MakeDescriptor(<<>>, 1, <<>>, <<>>, 0)
    /\ ctx = NewContext
    /\ hdrNull = None
    /\ hdrReal = None
    /\ plist = None
    /\ ftr = None
    /\ mapLog = <<>>
    /\ \/ \E op \in IntegerOps, buffer \in BOOLEAN :
             \E val \in IntegerValues(op), hi \in IntegerHalves(op),
                lo \in IntegerHalves(op) :
                call = [op |-> op, val |-> val, hi |-> hi, lo |-> lo, buffer |-> buffer]
       \/ \E s \in StringValues, prior \in PriorStrings :
             \E size \in 0..(Len(s) + 5) :
                call = [op |-> "StringRoundTrip", s |-> s, size |-> size, prior |-> prior]
       \/ \E type \in ColumnTypes, prior \in {"kBit", "kIndex"} :
             call = [op |-> "ColumnTypeRoundTrip", type |-> type, prior |-> prior]
       \/ \E tag \in OnDiskTags :
             call = [op |-> "DeserializeColumnType", tag |-> tag, prior |-> "kBit"]
    /\ ret = None

\* SerializeInt16 / SerializeUInt16, then DeserializeInt16 / DeserializeUInt16
CallInteger16 ==
    /\ ret = None
    /\ call.op \in {"Int16", "UInt16"}
    /\ ret' = IF call.op = "Int16"
              THEN IntegerRoundTrip(SerializeInt16(call.val, call.buffer),
                       DeserializeInt16(SerializeInt16(call.val, call.buffer).w), call.buffer)
              ELSE IntegerRoundTrip(SerializeUInt16(call.val, call.buffer),
                       DeserializeUInt16(SerializeUInt16(call.val, call.buffer).w), call.buffer)
    /\ UNCHANGED <<desc, ctx, hdrNull, hdrReal, plist, ftr, mapLog, call>>

\* SerializeInt32 / SerializeUInt32, then DeserializeInt32 / DeserializeUInt32
CallInteger32 ==
    /\ ret = None
    /\ call.op \in {"Int32", "UInt32"}
    /\ ret' = IF call.op = "Int32"
              THEN IntegerRoundTrip(SerializeInt32(call.val, call.buffer),
                       DeserializeInt32(SerializeInt32(call.val, call.buffer).w), call.buffer)
              ELSE IntegerRoundTrip(SerializeUInt32(call.val, call.buffer),
                       DeserializeUInt32(SerializeUInt32(call.val, call.buffer).w), call.buffer)
    /\ UNCHANGED <<desc, ctx, hdrNull, hdrReal, plist, ftr, mapLog, call>>

\* SerializeInt64 / SerializeUInt64, then DeserializeInt64 / DeserializeUInt64
CallInteger64 ==
    /\ ret = None
    /\ call.op \in {"Int64", "UInt64"}
    /\ LET val == [hi |-> call.hi, lo |-> call.lo]
       IN  ret' = IF call.op = "Int64"
                  THEN IntegerRoundTrip(SerializeInt64Wide(val, call.buffer),
                           DeserializeInt64Wide(SerializeInt64Wide(val, call.buffer).w),
                           call.buffer)
                  ELSE IntegerRoundTrip(SerializeUInt64Wide(val, call.buffer),
                           DeserializeUInt64Wide(SerializeUInt64Wide(val, call.buffer).w),
                           call.buffer)
    /\ UNCHANGED <<desc, ctx, hdrNull, hdrReal, plist, ftr, mapLog, call>>

\* SerializeString(s, buffer), then DeserializeString(buffer, size, val) on
\* the bytes written, which one more byte follows in memory
CallStringRoundTrip ==
    /\ ret = None
    /\ call.op = "StringRoundTrip"
    /\ ret' = [written |-> SerializeString(call.s, TRUE).n,
               sizeOnly |-> SerializeString(call.s, FALSE).n]
              @@ DeserializeString(SerializeString(call.s, TRUE).w \o <<9>>,
                                   call.size, call.prior)
    /\ UNCHANGED <<desc, ctx, hdrNull, hdrReal, plist, ftr, mapLog, call>>

\* SerializeColumnType(type, buffer), then DeserializeColumnType(buffer, type)
CallColumnTypeRoundTrip ==
    /\ ret = None
    /\ call.op = "ColumnTypeRoundTrip"
    /\ LET ser == SerializeColumnType(call.type, TRUE)
       IN  ret' = IF ser.err # NoErr
                  THEN [err |-> ser.err, n |-> 0, out |-> call.prior, w |-> <<>>]
                  ELSE [w |-> ser.w] @@ DeserializeColumnType(ser.w, call.prior)
    /\ UNCHANGED <<desc, ctx, hdrNull, hdrReal, plist, ftr, mapLog, call>>

\* DeserializeColumnType(buffer, type) on a buffer holding any 16-bit tag
CallDeserializeColumnType ==
    /\ ret = None
    /\ call.op = "DeserializeColumnType"
    /\ ret' = DeserializeColumnType(SerializeUInt16(call.tag, TRUE).w, call.prior)
    /\ UNCHANGED <<desc, ctx, hdrNull, hdrReal, plist, ftr, mapLog, call>>

NextPrimitive ==
    \/ CallInteger16
    \/ CallInteger32
    \/ CallInteger64
    \/ CallStringRoundTrip
    \/ CallColumnTypeRoundTrip
    \/ CallDeserializeColumnType

SpecPrimitive == InitPrimitive /\ [][NextPrimitive]_vars

---------------------------------------------------------------------------
(* Properties *)

HeaderOk(h) == h # None /\ h.err = NoErr

\* C1: the envelope length the null-buffer pass of SerializeHeaderV1 computes
\* (the header size stored in the context plus the 4 CRC bytes) is the extent
\* of what the real-buffer pass writes for the same descriptor.
C1_NullPassSizeIsRealExtent ==
    (HeaderOk(hdrNull) /\ HeaderOk(hdrReal))
        => Len(hdrReal.mem) = hdrNull.ctx.fHeaderSize + 4

\* the CRC-32 written as the last 4 bytes of the header envelope
TrailingCrc(h) == DeserializeUInt32(Slice(h.mem, h.size, 4)).val

\* C2: after a real-buffer SerializeHeaderV1 the header CRC stored in the
\* context is the CRC-32 written as the last 4 bytes of the envelope, and
\* SerializeFooterV1 with that context emits that value as header_crc32.
C2_StoredCrcIsTrailingCrc ==
    HeaderOk(hdrReal)
        => /\ hdrReal.ctx.fHeaderCrc32 = TrailingCrc(hdrReal)
           /\ (ftr # None /\ ftr.buffer /\ ftr.err = NoErr)
                  => DeserializeUInt32(Slice(ftr.mem, 12, 4)).val = TrailingCrc(hdrReal)

FieldIds(d) == DOMAIN d.fields

FieldParent(d, i) ==
    CHOOSE p \in FieldIds(d) :
        \E k \in 1..Len(GetFieldIterable(d, p)) : GetFieldIterable(d, p)[k] = i

RECURSIVE FieldDepth(_, _)
FieldDepth(d, i) == IF i = GetFieldZeroId(d) THEN 0 ELSE 1 + FieldDepth(d, FieldParent(d, i))

\* the physical ID of in-memory ID m when phys2mem lists the in-memory IDs in
\* the order their physical IDs were assigned
PhysIn(phys2mem, m) == (CHOOSE p \in 1..Len(phys2mem) : phys2mem[p] = m) - 1

\* phys2mem assigns 0 .. n-1 to the fields of d breadth first from the root
BreadthFirst(d, phys2mem) ==
    /\ Len(phys2mem) = GetNFields(d)
    /\ {phys2mem[p] : p \in 1..Len(phys2mem)} = FieldIds(d)
    /\ phys2mem[1] = GetFieldZeroId(d)
    /\ \A a, b \in FieldIds(d) :
          FieldDepth(d, a) < FieldDepth(d, b) => PhysIn(phys2mem, a) < PhysIn(phys2mem, b)
    /\ \A p \in FieldIds(d) : \A j, k \in 1..Len(GetFieldIterable(d, p)) :
          j < k => PhysIn(phys2mem, GetFieldIterable(d, p)[j])
                       < PhysIn(phys2mem, GetFieldIterable(d, p)[k])
    /\ \A a, b \in FieldIds(d) \ {GetFieldZeroId(d)} :
          (/\ FieldDepth(d, a) = FieldDepth(d, b)
           /\ PhysIn(phys2mem, FieldParent(d, a)) < PhysIn(phys2mem, FieldParent(d, b)))
              => PhysIn(phys2mem, a) < PhysIn(phys2mem, b)

\* C3: the physical field IDs header serialization assigns are 0 .. n_fields-1
\* without gaps or repeats, breadth first from the root: the root gets 0, a
\* field at depth d a smaller ID than every field at depth d+1, siblings in
\* descriptor order (and the children of an earlier parent before those of a
\* later one).
C3_FieldIdsBreadthFirst ==
    \A h \in {hdrNull, hdrReal} :
        h # None => BreadthFirst(desc, h.ctx.fPhys2MemFieldIDs)

\* a real-buffer header of four fields, 0 -> {1, 3} and 1 -> {2}: field 3, a
\* child of the root, got its ID before field 2, a grandchild
C3_Witness ==
    /\ HeaderOk(hdrReal)
    /\ GetNFields(desc) = 4
    /\ GetFieldIterable(desc, 0) = <<1, 3>>
    /\ GetFieldIterable(desc, 1) = <<2>>
    /\ hdrReal.ctx.fPhys2MemFieldIDs = <<0, 1, 3, 2>>

\* the columns in the order SerializeColumnsV1 reaches them: per field in
\* traversal order, the columns of that field
RECURSIVE ColumnsInOrder(_, _, _)
ColumnsInOrder(d, phys2mem, p) ==
    IF p > Len(phys2mem) THEN <<>>
    ELSE GetColumnIterable(d, phys2mem[p]) \o ColumnsInOrder(d, phys2mem, p + 1)

\* where the first column record lies when every record follows the one before
ColumnRecordsAt(d) == 36 + Len(d.name) + Len(d.description)

\* C4: for a descriptor with at least one column, header serialization
\* succeeds and each column record carries, in its physical_field_id slot, the
\* physical ID that the field traversal gave the column's owning field.
C4_ColumnRecordHasOwnerFieldId ==
    (hdrReal # None /\ GetNColumns(desc) >= 1)
        => /\ hdrReal.err = NoErr
           /\ LET cols == ColumnsInOrder(desc, hdrReal.ctx.fPhys2MemFieldIDs, 1)
              IN  \A k \in 1..Len(cols) :
                     DeserializeUInt32(
                         Slice(hdrReal.mem, ColumnRecordsAt(desc) + 16 * (k - 1) + 8, 4)).val
                     = PhysIn(hdrReal.ctx.fPhys2MemFieldIDs, cols[k].fFieldId)

\* C5: SerializePageListV1 translates, per physical cluster ID in the given
\* order, the cluster's in-memory column IDs through the column mapping, emits
\* the inner frames in ascending physical column ID order, and each inner
\* frame holds the page range of the in-memory column the column mapping
\* associates with that physical column ID.
C5_PageListUsesColumnMapping ==
    (plist # None /\ plist.err = NoErr)
        => \A k \in 1..Len(plist.physClusterIDs) :
              LET cluster == desc.clusters[ctx.fPhys2MemClusterIDs[plist.physClusterIDs[k] + 1]]
                  columns == {cluster.fColumnIds[j] : j \in 1..Len(cluster.fColumnIds)}
              IN  /\ columns \subseteq DOMAIN ctx.fMem2PhysColumnIDs
                  /\ LET phys == Ascending({ctx.fMem2PhysColumnIDs[c] : c \in columns})
                     IN  plist.ranges[k] =
                             [i \in 1..Len(phys) |-> ctx.fPhys2MemColumnIDs[phys[i] + 1]]

\* C6: for a non-empty list of non-negative flags, also one with 0 at a
\* position other than the last, DeserializeFeatureFlags on the bytes
\* SerializeFeatureFlags wrote yields the list; for the empty list, <<0>>.
C6_FeatureFlagsRoundTrip ==
    (/\ call # None
     /\ call.op = "FeatureFlagsRoundTrip"
     /\ \A i \in 1..Len(call.flags) : call.flags[i] >= 0)
        => /\ ret.err = NoErr
           /\ ret.out = IF call.flags = <<>> THEN <<0>> ELSE call.flags

\* C7: SerializeFeatureFlags fails with "feature flag out of bounds" for every
\* list that holds a negative value, with a null buffer and with a real one.
C7_NegativeFlagFails ==
    (/\ call # None
     /\ call.op = "SerializeFeatureFlags"
     /\ \E i \in 1..Len(call.flags) : call.flags[i] < 0)
        => ret.err = "feature flag out of bounds"

\* C8: whenever DeserializeFrame succeeds on a list frame, the nitems it
\* returns is below 2^28, the bound SerializeListFramePreamble enforces.
C8_ListFrameItemsBelowLimit ==
    (/\ call # None
     /\ call.op = "DeserializeFrame"
     /\ ret.err = NoErr
     /\ DeserializeInt32(call.b).val < 0)
        => (0 <= ret.nitems /\ ret.nitems < ListFrameLimit)

DeserializeOps ==
    {"DeserializeString", "DeserializeFeatureFlags", "DeserializeLocator",
     "DeserializeEnvelopeLink", "DeserializeClusterSummary", "DeserializeClusterGroup"}

\* C9: when a Deserialize* function fails, the caller's output object is as
\* it was before the call.
C9_FailedDeserializeKeepsOutput ==
    (/\ call # None
     /\ call.op \in DeserializeOps
     /\ ret.err # NoErr)
        => ret.out = call.prior

GetPhysId(kind, context, memId) ==
    CASE kind = "field"   -> GetPhysFieldId(context, memId)
      [] kind = "column"  -> GetPhysColumnId(context, memId)
      [] kind = "cluster" -> GetPhysClusterId(context, memId)

GetMemId(kind, context, physId) ==
    CASE kind = "field"   -> GetMemFieldId(context, physId)
      [] kind = "column"  -> GetMemColumnId(context, physId)
      [] kind = "cluster" -> GetMemClusterId(context, physId)

\* C10: after any sequence of Map*Id calls, each call returned the number of
\* earlier calls of its kind, the ID a call returned for an in-memory ID is
\* what GetPhys*Id returns for it in every later state, and
\* GetMem*Id(GetPhys*Id(m)) = m, GetPhys*Id(GetMem*Id(p)) = p for every mapped
\* m and every assigned p.
C10_AssignedIdsNeverChange ==
    \A i \in 1..Len(mapLog) :
        LET kind   == mapLog[i][1]
            memId  == mapLog[i][2]
            physId == mapLog[i][3]
        IN  /\ physId = Cardinality({j \in 1..(i - 1) : mapLog[j][1] = kind})
            /\ GetPhysId(kind, ctx, memId) = [err |-> NoErr, val |-> physId]
            /\ GetMemId(kind, ctx, GetPhysId(kind, ctx, memId).val)
                   = [err |-> NoErr, val |-> memId]
            /\ GetPhysId(kind, ctx, GetMemId(kind, ctx, physId).val)
                   = [err |-> NoErr, val |-> physId]

\* whether the key of the lookup in `call` is absent from the context
AbsentKey ==
    IF call.op = "GetPhysId"
    THEN call.id \notin DOMAIN (CASE call.kind = "field"   -> ctx.fMem2PhysFieldIDs
                                  [] call.kind = "column"  -> ctx.fMem2PhysColumnIDs
                                  [] call.kind = "cluster" -> ctx.fMem2PhysClusterIDs)
    ELSE call.id >= Len(CASE call.kind = "field"   -> ctx.fPhys2MemFieldIDs
                          [] call.kind = "column"  -> ctx.fPhys2MemColumnIDs
                          [] call.kind = "cluster" -> ctx.fPhys2MemClusterIDs)

\* C11: every context lookup with an absent key (GetPhys*Id of an in-memory
\* ID never mapped, GetMem*Id of a physical ID not yet assigned) fails with
\* the unknown-id exception instead of returning a value.
C11_AbsentKeyFails ==
    (/\ call # None
     /\ call.op \in {"GetPhysId", "GetMemId"}
     /\ AbsentKey)
        => ret.err = "std::out_of_range"

\* C12: DeserializeEnvelope succeeds, returning 4, on every envelope written
\* as preamble + payload + postscript, and fails with the checksum mismatch
\* on every such envelope in which one byte (preamble, payload or CRC) has
\* another value.
C12_EnvelopeVerifies ==
    (call # None /\ ret # None)
        => /\ call.op = "EnvelopeRoundTrip" => (ret.err = NoErr /\ ret.n = 4)
           /\ call.op = "EnvelopeCorrupted" => ret.err = "CRC32 checksum mismatch"

\* an envelope whose first payload byte was changed has been rejected
C12_Witness ==
    /\ call # None /\ ret # None
    /\ call.op = "EnvelopeCorrupted"
    /\ Len(call.b) = 10
    /\ call.at = 5
    /\ ret.err = "CRC32 checksum mismatch"

\* C13: on a buffer of at least 8 bytes with a correct trailing CRC,
\* DeserializeEnvelope fails with format-too-old when version_at_write is 0,
\* else fails with format-too-new when version_min_required exceeds the
\* current version 1, and else returns 4; on a buffer shorter than 8 bytes it
\* fails without having read a byte.
C13_EnvelopeVersionGates ==
    (call # None /\ ret # None /\ call.op = "DeserializeEnvelope")
        => IF Len(call.b) < 8
           THEN ret.err = "invalid envelope, too short" /\ ret.read = 0
           ELSE IF call.atWrite = 0
           THEN ret.err = "The RNTuple format is too old (version 0)"
           ELSE IF call.minRequired > 1
           THEN ret.err = "The RNTuple format is too new"
           ELSE ret.err = NoErr /\ ret.n = 4

\* an envelope whose minimum required version is current + 1 was refused
C13_Witness ==
    /\ call # None /\ ret # None
    /\ call.op = "DeserializeEnvelope"
    /\ Len(call.b) >= 8
    /\ call.atWrite = 1
    /\ call.minRequired = 2
    /\ ret.err = "The RNTuple format is too new"

\* C14: a frame written with a real buffer as preamble + payload +
\* SerializeFramePostscript(frame, size) starts, read as signed little-endian
\* 32-bit, with -size followed by nitems when it is a list frame of
\* nitems < 2^28 items, and with +size when it is a record frame.
C14_FrameSizePrefix ==
    (call # None /\ ret # None /\ call.op = "WriteFrame")
        => /\ ret.err = NoErr
           /\ IF call.kind = "list"
              THEN /\ DeserializeInt32(Slice(ret.mem, call.lead, 4)).val
                        = -(8 + Len(call.payload))
                   /\ DeserializeInt32(Slice(ret.mem, call.lead + 4, 4)).val = call.nitems
              ELSE DeserializeInt32(Slice(ret.mem, call.lead, 4)).val
                        = 4 + Len(call.payload)

\* a list frame of 2^28 - 1 items and two payload bytes, behind three other
\* bytes, has been written
C14_Witness ==
    /\ call # None /\ ret # None
    /\ call.op = "WriteFrame"
    /\ call.kind = "list"
    /\ call.nitems = 268435455
    /\ call.lead = 3
    /\ Len(call.payload) = 2
    /\ Len(ret.mem) = 13
    /\ ret.err = NoErr

\* C15: SerializeListFramePreamble succeeds for every nitems up to 2^28 - 1
\* and fails with list-frame-too-large for 2^28 and every larger nitems, with
\* a null buffer and with a real one.
C15_ListFrameLimit ==
    (call # None /\ ret # None /\ call.op = "SerializeListFramePreamble")
        => IF call.nitems >= 0 /\ call.nitems <= 268435455
           THEN ret.err = NoErr /\ ret.n = 8
           ELSE ret.err = "list frame too large"

\* 2^28 items were refused on the size-only pass
C15_Witness ==
    /\ call # None /\ ret # None
    /\ call.op = "SerializeListFramePreamble"
    /\ call.nitems = 268435456
    /\ ~call.buffer
    /\ ret.err = "list frame too large"

\* C16: SerializeLocator succeeds for an inline locator (empty URL) whose
\* bytes_on_storage is at most 2^31 - 1 and fails with locator-too-large when
\* the high bit is set (2^31 and above); it succeeds for a URL locator of at
\* most 2^24 - 1 bytes and fails with locator-too-large for 2^24 bytes or more.
C16_LocatorLimits ==
    (call # None /\ ret # None /\ call.op = "SerializeLocator")
        => IF call.urlLength = 0
           THEN IF call.fBytesOnStorage \in 0..2147483647
                THEN ret.err = NoErr /\ ret.n = 12
                ELSE ret.err = "locator too large"
           ELSE IF call.urlLength <= 16777215
                THEN ret.err = NoErr /\ ret.n = 4 + call.urlLength
                ELSE ret.err = "locator too large"

\* the size-only pass over a URL locator of 2^24 - 1 bytes has succeeded
C16_Witness ==
    /\ call # None /\ ret # None
    /\ call.op = "SerializeLocator"
    /\ call.urlLength = 16777215
    /\ ~call.buffer
    /\ ret.err = NoErr
    /\ ret.n = 16777219

\* the width in bytes of the integer type of a call
IntegerWidth(op) ==
    CASE op \in {"Int16", "UInt16"} -> 2
      [] op \in {"Int32", "UInt32"} -> 4
      [] op \in {"Int64", "UInt64"} -> 8

\* C17: for each integer width, signed and unsigned, and each value v of the
\* type, the serialize function returns the width in bytes; with a real
\* buffer it writes that many bytes and the matching deserialize function
\* returns the width and yields v; with a null buffer it writes nothing.
C17_IntegerRoundTrip ==
    (call # None /\ ret # None /\ call.op \in IntegerOps)
        => /\ ret.n = IntegerWidth(call.op)
           /\ IF call.buffer
              THEN /\ Len(ret.w) = IntegerWidth(call.op)
                   /\ ret.m = IntegerWidth(call.op)
                   /\ IF call.op \in {"Int64", "UInt64"}
                      THEN ret.out = [hi |-> call.hi, lo |-> call.lo]
                      ELSE ret.out = call.val
              ELSE ret.w = <<>>
           /\ \* a 64-bit value within 32 bits: the one-word operators agree
              (/\ call.op \in {"Int64", "UInt64"}
               /\ call.buffer
               /\ call.hi = (IF call.lo < 0 THEN -1 ELSE 0))
                  => /\ SerializeInt64(call.lo, TRUE).w = ret.w
                     /\ DeserializeInt64(ret.w).val = call.lo

\* the 64-bit value 0x7FFFFFFF80000000 went through a real buffer
C17_Witness ==
    /\ call # None /\ ret # None
    /\ call.op = "Int64"
    /\ call.buffer
    /\ call.hi = 2147483647
    /\ call.lo = Int32Min
    /\ ret.w = <<0, 0, 0, 128, 255, 255, 255, 127>>
    /\ ret.out = [hi |-> 2147483647, lo |-> Int32Min]

\* C18: for every byte string s, the empty one and those holding zero bytes
\* included, SerializeString writes 4 + |s| bytes and DeserializeString on
\* them with size >= 4 + |s| yields s and returns 4 + |s|; with a smaller
\* size (size < 4, or size - 4 below the stored length) it fails with
\* buffer-too-short.
C18_StringRoundTrip ==
    (call # None /\ ret # None /\ call.op = "StringRoundTrip")
        => /\ ret.written = 4 + Len(call.s)
           /\ ret.sizeOnly = 4 + Len(call.s)
           /\ IF call.size >= 4 + Len(call.s)
              THEN ret.err = NoErr /\ ret.out = call.s /\ ret.n = 4 + Len(call.s)
              ELSE ret.err = "buffer too short"

\* a string with a zero byte in front came back over another string
C18_Witness ==
    /\ call # None /\ ret # None
    /\ call.op = "StringRoundTrip"
    /\ call.s = <<0, 104>>
    /\ call.prior # <<>>
    /\ call.size = 6
    /\ ret.err = NoErr
    /\ ret.out = <<0, 104>>

\* the on-disk tag of each supported column type
ColumnTypeTable ==
    {<<"kIndex", 2>>, <<"kSwitch", 3>>, <<"kBit", 6>>, <<"kReal64", 7>>, <<"kReal32", 8>>,
     <<"kReal16", 9>>, <<"kInt64", 10>>, <<"kInt32", 11>>, <<"kInt16", 12>>, <<"kByte", 13>>}

\* C19: for every supported column type t, SerializeColumnType writes the tag
\* the table gives and DeserializeColumnType on it yields t; for every 16-bit
\* on-disk tag that is not in the table DeserializeColumnType fails.
C19_ColumnTypeRoundTrip ==
    (call # None /\ ret # None)
        => /\ call.op = "ColumnTypeRoundTrip"
                => \A row \in ColumnTypeTable :
                      row[1] = call.type
                         => /\ ret.err = NoErr
                            /\ ret.w = <<row[2], 0>>
                            /\ ret.out = call.type
           /\ (/\ call.op = "DeserializeColumnType"
               /\ \A row \in ColumnTypeTable : row[2] # call.tag)
                => ret.err = "unexpected on-disk column type"

\* kByte was written as the tag 0x0D and read back over a prior kBit
C19_Witness ==
    /\ call # None /\ ret # None
    /\ call.op = "ColumnTypeRoundTrip"
    /\ call.type = "kByte"
    /\ call.prior = "kBit"
    /\ ret.w = <<13, 0>>
    /\ ret.out = "kByte"

\* where the fields list frame begins: after the envelope preamble, the
\* empty feature flag list and the two strings
FieldsFrameAt(d) == 20 + Len(d.name) + Len(d.description)

\* a record frame whose size prefix is its own byte length
OwnLength(w) == LittleEndian(Len(w), 4) \o SubSeq(w, 5, Len(w))

\* the record frames of the children of one parent, one after the other
RECURSIVE FieldRecordsOf(_, _, _, _)
FieldRecordsOf(d, kids, i, physParentId) ==
    IF i > Len(kids) THEN <<>>
    ELSE OwnLength(FieldRecord(d.fields[kids[i]], physParentId, TRUE).w)
         \o FieldRecordsOf(d, kids, i + 1, physParentId)

\* the record frames of all fields in traversal order, one after the other
RECURSIVE FieldRecordsInOrder(_, _, _)
FieldRecordsInOrder(d, phys2mem, p) ==
    IF p > Len(phys2mem) THEN <<>>
    ELSE FieldRecordsOf(d, GetFieldIterable(d, phys2mem[p]), 1, p - 1)
         \o FieldRecordsInOrder(d, phys2mem, p + 1)

\* C20: after a real-buffer SerializeHeaderV1 the payload of the fields list
\* frame is the concatenation, in traversal order and without overlap, of one
\* record frame per field, each with its own byte length as size prefix, and
\* the size patched into the list frame is 8 plus the sum of the record
\* lengths; the columns list frame follows and is built the same way from
\* the 16-byte column records.
C20_ListFramePayloadIsRecordFrames ==
    HeaderOk(hdrReal)
        => LET fieldsAt  == FieldsFrameAt(desc)
               payload   == FieldRecordsInOrder(desc, hdrReal.ctx.fPhys2MemFieldIDs, 1)
               columnsAt == fieldsAt + 8 + Len(payload)
               nColumns  == GetNColumns(desc)
           IN  /\ Len(hdrReal.mem) >= columnsAt + 8 + 16 * nColumns
               /\ DeserializeInt32(Slice(hdrReal.mem, fieldsAt, 4)).val = -(8 + Len(payload))
               /\ Slice(hdrReal.mem, fieldsAt + 8, Len(payload)) = payload
               /\ DeserializeInt32(Slice(hdrReal.mem, columnsAt, 4)).val
                      = -(8 + 16 * nColumns)
               /\ \A k \in 1..nColumns :
                      DeserializeInt32(
                          Slice(hdrReal.mem, columnsAt + 8 + 16 * (k - 1), 4)).val = 16

\* where the cluster summaries list frame of a footer begins: after the
\* envelope preamble, the empty feature flag list, header_crc32 and the two
\* empty list frames
SummariesFrameAt == 4 + 8 + 4 + 8 + 8

\* the byte length of a cluster summary record without a column group
SummaryRecordLength == 4 + 8 + 8

\* [size, nitems] of the list frame at offset at
ListFrameHead(mem, at) ==
    [size   |-> -DeserializeInt32(Slice(mem, at, 4)).val,
     nitems |-> DeserializeUInt32(Slice(mem, at + 4, 4)).val]

\* the record at offset at is the summary of cluster c with column group -1:
\* size 20, first_entry, n_entries as it is
IsSummaryOf(mem, at, c) ==
    /\ DeserializeInt32(Slice(mem, at, 4)).val = SummaryRecordLength
    /\ DeserializeUInt64(Slice(mem, at + 4, 8)).val = c.fFirstEntryIndex
    /\ DeserializeInt64(Slice(mem, at + 12, 8)).val = c.fNEntries

\* the offset after the records of the cluster groups k .. Len(groups) read
\* one after the other from offset at, or -1 when a record is not the group
\* registered at its place
RECURSIVE GroupRecordsEnd(_, _, _, _)
GroupRecordsEnd(mem, at, groups, k) ==
    IF k > Len(groups) THEN at
    ELSE IF at + 4 > Len(mem) THEN -1
    ELSE LET rest == Slice(mem, at, Len(mem) - at)
             read == DeserializeClusterGroup(rest, Len(rest), groups[k])
         IN  IF read.err # NoErr \/ read.out # groups[k] THEN -1
             ELSE GroupRecordsEnd(mem, at + read.n, groups, k + 1)

\* the footer in mem holds the summaries of the clusters of d in the order
\* of their physical IDs, then the cluster groups in the order of groups,
\* then the empty meta-data list frame and the CRC; every list frame's
\* nitems is the number of its records and its size spans them
FooterLayout(mem, d, context) ==
    LET nClusters == GetNClusters(d)
        groups    == GetClusterGroups(context)
        groupsAt  == SummariesFrameAt + 8 + SummaryRecordLength * nClusters
        groupsEnd == GroupRecordsEnd(mem, groupsAt + 8, groups, 1)
    IN  /\ Len(mem) >= groupsAt + 8
        /\ Len(context.fPhys2MemClusterIDs) = nClusters
        /\ ListFrameHead(mem, SummariesFrameAt)
               = [size |-> 8 + SummaryRecordLength * nClusters, nitems |-> nClusters]
        /\ \A i \in 0..(nClusters - 1) :
               IsSummaryOf(mem, SummariesFrameAt + 8 + SummaryRecordLength * i,
                           d.clusters[context.fPhys2MemClusterIDs[i + 1]])
        /\ groupsEnd # -1
        /\ ListFrameHead(mem, groupsAt)
               = [size |-> groupsEnd - groupsAt, nitems |-> Len(groups)]
        /\ Len(mem) = groupsEnd + 12
        /\ ListFrameHead(mem, groupsEnd) = [size |-> 8, nitems |-> 0]

\* C21: a footer written with a real buffer after the header and after the
\* AddClusterGroup calls on the context holds the cluster summaries in
\* ascending physical cluster ID order 0 .. nClusters-1, each with
\* n_entries not negated and no group ID field, then a list frame of the
\* registered cluster groups in their registration order; each list frame's
\* nitems is the number of records it contains.
C21_FooterSummariesAndGroups ==
    (HeaderDone /\ ftr # None /\ ftr.buffer)
        => /\ ftr.err = NoErr
           /\ FooterLayout(ftr.mem, desc, ctx)

\* every cluster of the descriptor got its physical ID before the footer
AllClustersMapped == Len(ctx.fPhys2MemClusterIDs) = GetNClusters(desc)

\* the footer of a context on which every cluster was mapped has the layout
FooterLayoutWhenMapped ==
    (HeaderDone /\ ftr # None /\ ftr.buffer /\ AllClustersMapped)
        => /\ ftr.err = NoErr
           /\ FooterLayout(ftr.mem, desc, ctx)

\* two clusters mapped 1 before 0 and two cluster groups, all in the footer
FooterOfTwoClusters ==
    /\ HeaderDone /\ ftr # None /\ ftr.buffer /\ ftr.err = NoErr
    /\ ctx.fPhys2MemClusterIDs = <<1, 0>>
    /\ Len(ctx.fClusterGroups) = 2
    /\ ctx.fClusterGroups[1] # ctx.fClusterGroups[2]

\* C22: for every cluster summary s with column_group_id >= -1, n_entries = 0
\* together with column_group_id >= 0 included, DeserializeClusterSummary on
\* the record frame SerializeClusterSummary(s) wrote yields s and returns
\* the byte count SerializeClusterSummary returned.
C22_ClusterSummaryRoundTrip ==
    (call # None /\ call.op = "ClusterSummaryRoundTrip")
        => /\ ret.err = NoErr
           /\ ret.out = call.s
           /\ ret.n = ret.written

\* the round trip of the summaries that have entries or no column group
ClusterSummaryRoundTripWithEntries ==
    (/\ call # None
     /\ call.op = "ClusterSummaryRoundTrip"
     /\ (call.s.fNEntries > 0 \/ call.s.fColumnGroupID = -1))
        => /\ ret.err = NoErr
           /\ ret.out = call.s
           /\ ret.n = ret.written
           /\ ret.written = IF call.s.fColumnGroupID >= 0 THEN 24 ELSE 20

\* a summary with 10 entries in column group 2 came back over another one
ClusterSummaryWithGroupRead ==
    /\ call # None
    /\ call.op = "ClusterSummaryRoundTrip"
    /\ call.s = [fFirstEntry |-> 30, fNEntries |-> 10, fColumnGroupID |-> 2]
    /\ call.prior.fColumnGroupID = -1
    /\ ret.out = call.s

\* the head word of a locator buffer
LocatorHead(b) == DeserializeInt32(b).val

\* the high byte of |head|; |head| of the least 32-bit integer is 2^31
HeadHighByte(head) ==
    IF head >= 0 THEN head \div Pow2(24)
    ELSE IF head = Int32Min THEN 128
    ELSE (-head) \div Pow2(24)

\* the round trip of the inline and the URL-only locators
LocatorRoundTrip ==
    (call # None /\ call.op = "LocatorRoundTrip")
        => /\ ret.err = NoErr
           /\ ret.out = call.locator
           /\ ret.n = ret.written
           /\ ret.sizeOnly = ret.written
           /\ ret.n = IF call.locator.fUrl = <<>> THEN 12 ELSE 4 + Len(call.locator.fUrl)

\* a stored head >= 0 is decoded as inline, a head < 0 as URL, and a head
\* < 0 whose |head| has a high byte other than 0x02 is refused; the buffers
\* looked at hold the 8 bytes an inline locator needs after the head
LocatorHeadDecides ==
    (call # None /\ call.op = "DeserializeLocator" /\ Len(call.b) >= 12)
        => LET head == LocatorHead(call.b)
           IN  /\ head >= 0
                      => /\ ret.err = NoErr
                         /\ ret.n = 12
                         /\ ret.out.fUrl = <<>>
                         /\ ret.out.fBytesOnStorage = head
               /\ (head < 0 /\ HeadHighByte(head) # LocatorUrlTag)
                      => ret.err = "unsupported locator type"
               /\ (head < 0 /\ HeadHighByte(head) = LocatorUrlTag)
                      => /\ ret.err = NoErr
                         /\ ret.n = 4 + ((-head) % Pow2(24))
                         /\ ret.out = [fBytesOnStorage |-> 0, fPosition |-> 0,
                                       fUrl |-> Slice(call.b, 4, (-head) % Pow2(24))]

\* a buffer whose head is not the least 32-bit integer
HeadNegatable ==
    (call.op = "DeserializeLocator" /\ Len(call.b) >= 4) => LocatorHead(call.b) # Int32Min

\* what the head decides on the buffers whose head can be negated
LocatorHeadDecidesWhenNegatable ==
    (call # None /\ HeadNegatable) => LocatorHeadDecides

\* a URL of 300 bytes came back, and so did an inline locator at the limit
LocatorUrlRead ==
    /\ call # None
    /\ call.op = "LocatorRoundTrip"
    /\ Len(call.locator.fUrl) = 300
    /\ ret.n = 304
    /\ ret.out = call.locator

\* C23: for every locator SerializeLocator accepts that is inline or URL
\* only, DeserializeLocator on the written bytes yields an equal locator and
\* returns the byte count SerializeLocator returned (12 for inline, 4 +
\* length for a URL); a stored head >= 0 is always decoded as inline and a
\* head < 0 as URL, failing with unsupported-locator-type when the high byte
\* of |head| is not 0x02.
C23_LocatorRoundTrip ==
    /\ LocatorRoundTrip
    /\ LocatorHeadDecides

====
